---- MODULE Spec2Model ----
(***************************************************************************)
(* Funnel execution state machine of CPAFunnelTester (block1-jobs).        *)
(*                                                                         *)
(* The repository keeps several revisions of the same class.  The model    *)
(* carries the revision as the variable rev:                               *)
(*   "tf2"  src/test-funnel.js  lines 656-1461 (current revision)          *)
(*   "tf1"  src/test-funnel.js  lines 1-654    (earlier revision)          *)
(*   "p3b"  src/unnamed/part_003 lines 736-1413                            *)
(*   "p0"   src/unnamed/part_000 (first revision, specification SpecLegacy)*)
(*   "p2"   src/unnamed/part_002 (its navigateToNextPage, SpecNavigate)    *)
(*                                                                         *)
(* The browser is the environment: every waitForElement call sees one DOM  *)
(* snapshot (the set vis of candidates that are visible), fixed for the    *)
(* duration of the call and chosen freely at each call.                    *)
(***************************************************************************)
EXTENDS Integers, Sequences, FiniteSets, TLC

\* ------------------------------------------------------------------ bounds
MaxPages == 3

MaxFields == 2

MaxSelectors == 2

\* ------------------------------------------------------------- vocabulary
Revisions == {"tf1", "tf2", "p3b", "p0", "p2"}

\* JavaScript null returned by waitForElement; selectors are positive codes.
null == 0

\* pageDetection.checkForElement of the page at list index k
DetSel(k) == 10 * k

\* the ordered candidate list (selectors) of field j
FieldSelectors(j) == [c \in 1..MaxSelectors |-> 100 + 10 * j + c]

\* the ordered candidate list of a NavigationSpec
NavSelectors == [c \in 1..MaxSelectors |-> 200 + c]

Range(s) == {s[x] : x \in DOMAIN s}

NoErr == [kind |-> "none", field |-> 0]

Err(kind, ft) == [kind |-> kind, field |-> ft]

\* ---------------------------------------------------------- configuration
\* The `optional` / `required` flags of a FieldSpec; "absent" is a field
\* that omits the `required` key.  fieldType is a key code into testData.
FieldFlags ==
    { [optional |-> FALSE, required |-> "absent"],
      [optional |-> FALSE, required |-> "true"],
      [optional |-> FALSE, required |-> "false"],
      [optional |-> TRUE,  required |-> "absent"] }

FieldSpecAt(j, fl) ==
    [fieldType |-> j, optional |-> fl.optional, required |-> fl.required,
     action |-> "type"]

\* field lists: field j is keyed by fieldType j
FieldLists ==
    UNION { { [j \in 1..n |-> FieldSpecAt(j, f[j])] : f \in [1..n -> FieldFlags] }
            : n \in 0..MaxFields }

\* the field lists used in multi-page funnels: no field, or one required field
ShortFieldLists == { fs \in FieldLists : Len(fs) = 0 \/ (Len(fs) = 1 /\ fs[1].required = "absent" /\ ~fs[1].optional) }

\* strictly increasing pageNumber sequences starting at 1: contiguous, or with
\* one gap of one number after list position g
Numberings(n) ==
    { [k \in 1..n |-> IF k > g THEN k + 1 ELSE k] : g \in 1..n }

PageShapes == [optional : BOOLEAN, hasDetection : BOOLEAN]

\* every page but the last has a NavigationSpec; the last has one iff navOnLast
PageLists(n, fieldLists, navChoices) ==
    { [k \in 1..n |->
         [pageNumber |-> nb[k],
          optional |-> sh[k].optional,
          hasDetection |-> sh[k].hasDetection,
          fields |-> fl,
          hasNav |-> (k < n \/ navOnLast)]]
      : nb \in Numberings(n), sh \in [1..n -> PageShapes],
        fl \in fieldLists, navOnLast \in navChoices }

\* testData: the set of fieldType keys that carry a non-empty value
DataSets == { d \in SUBSET (1..MaxFields) : Cardinality(d) >= MaxFields - 1 }

\* funnels of several pages with short field lists and complete data
PageRichConfigs ==
    (UNION { PageLists(n, ShortFieldLists, {FALSE}) : n \in 2..MaxPages }) \X {1..MaxFields}

\* one-page funnels with every field list and every data set
FieldRichConfigs == PageLists(1, FieldLists, BOOLEAN) \X DataSets

\* -------------------------------------------------------- pure functions
\* waitForElement: try each candidate in order, return the first whose
\* waitForSelector(state: 'visible') succeeds, null after the last one.
RECURSIVE waitFrom(_, _, _)
waitFrom(selectorArray, vis, c) ==
    IF c > Len(selectorArray) THEN null
    ELSE IF selectorArray[c] \in vis THEN selectorArray[c]
    ELSE waitFrom(selectorArray, vis, c + 1)

\* the loop run without the early return: the last visible candidate wins
RECURSIVE waitLast(_, _, _)
waitLast(selectorArray, vis, c) ==
    IF c < 1 THEN null
    ELSE IF selectorArray[c] \in vis THEN selectorArray[c]
    ELSE waitLast(selectorArray, vis, c - 1)

waitForElement_lastVisible(selectors, vis) == waitLast(selectors, vis, Len(selectors))

waitForElement(selectors, vis) == waitFrom(selectors, vis, 1)

\* fillField's own notion of "this field may be skipped"
isOptional(r, field) ==
    CASE r = "tf2" -> field.optional \/ field.required = "false"
      [] r = "tf1" -> ~((field.required # "false") /\ ~field.optional)
      [] OTHER     -> field.optional

\* the re-raise test without its `required !== false` conjunct
isRequired_ignoresRequiredFalse(r, field) ==
    CASE r = "tf2" -> ~field.optional
      [] r = "p0"  -> ~field.optional
      [] OTHER     -> field.required = "true" /\ ~field.optional

\* testPage's decision to re-raise a field error
isRequired(r, field) ==
    CASE r = "tf2" -> ~field.optional /\ field.required # "false"
      [] r = "p0"  -> ~field.optional
      [] OTHER     -> field.required = "true" /\ ~field.optional

\* result of one fillField call: ret is "true", "false" or "throw"
FillResult(ret, err, interacted) == [ret |-> ret, err |-> err, interacted |-> interacted]

fillField_tf2(field, data, found, interactOK) ==
    IF found = null THEN
        IF ~isOptional("tf2", field)
        THEN FillResult("throw", Err("FieldNotFound", field.fieldType), FALSE)
        ELSE FillResult("false", NoErr, FALSE)
    ELSE IF field.fieldType \notin data /\ ~isOptional("tf2", field)
        THEN FillResult("throw", Err("MissingData", field.fieldType), FALSE)
    ELSE IF field.fieldType \notin data THEN FillResult("false", NoErr, FALSE)
    ELSE IF ~interactOK THEN FillResult("throw", Err("Interaction", field.fieldType), TRUE)
    ELSE FillResult("true", NoErr, TRUE)

fillField_tf1(field, data, found, interactOK) ==
    LET actuallyRequired == ~isOptional("tf1", field) IN
    IF found = null THEN
        IF actuallyRequired
        THEN FillResult("throw", Err("FieldNotFound", field.fieldType), FALSE)
        ELSE FillResult("true", NoErr, FALSE)
    ELSE IF ~interactOK THEN
        IF actuallyRequired
        THEN FillResult("throw", Err("Interaction", field.fieldType), TRUE)
        ELSE FillResult("false", NoErr, TRUE)
    ELSE FillResult("true", NoErr, TRUE)

fillField_p3b(field, data, found, interactOK) ==
    IF found = null
        THEN FillResult("throw", Err("FieldNotFound", field.fieldType), FALSE)
    ELSE IF field.fieldType \notin data /\ ~field.optional
        THEN FillResult("throw", Err("MissingData", field.fieldType), FALSE)
    ELSE IF field.optional /\ field.fieldType \notin data THEN FillResult("false", NoErr, FALSE)
    ELSE IF ~interactOK THEN FillResult("throw", Err("Interaction", field.fieldType), TRUE)
    ELSE FillResult("true", NoErr, TRUE)

\* part_000: one selector, `optional` is the only flag read, no data check
fillField_p0(field, data, found, interactOK) ==
    IF found = null THEN
        IF field.optional
        THEN FillResult("true", NoErr, FALSE)
        ELSE FillResult("throw", Err("FieldNotFound", field.fieldType), FALSE)
    ELSE IF ~interactOK THEN
        IF ~field.optional
        THEN FillResult("throw", Err("Interaction", field.fieldType), TRUE)
        ELSE FillResult("false", NoErr, TRUE)
    ELSE FillResult("true", NoErr, TRUE)

fillField(r, field, data, found, interactOK) ==
    CASE r = "tf2" -> fillField_tf2(field, data, found, interactOK)
      [] r = "tf1" -> fillField_tf1(field, data, found, interactOK)
      [] r = "p0"  -> fillField_p0(field, data, found, interactOK)
      [] OTHER     -> fillField_p3b(field, data, found, interactOK)

\* ------------------------------------------------------------------ state
VARIABLES
    rev,                  \* which revision of the class runs
    pages,                \* config.funnel.pages
    testData,             \* keys of the data record that carry a value
    pc,                   \* position of runFullTest / testPage
    pageIdx,              \* loop index i of runFullTest (1-based)
    previousPageSkipped,  \* runFullTest local
    alreadyOn,            \* runFullTest: currentPageDetected branch taken
    pageResult,           \* testPage local
    fieldIdx,             \* position of testPage's field loop
    testResults,          \* this.testResults
    page,                 \* this.page is set
    browser,              \* this.browser is set and open
    thrown,               \* the error runFullTest re-raised to its caller
    probe,                \* a selector-resolution call: candidates, DOM, return
    detLog,               \* per page: how detection classified it
    filled,               \* <<page, field>> pairs that were interacted with
    navTried,             \* pages whose navigateToNextPage was called
    fillLog,              \* per fillField call: what it returned
    shot,                 \* the failure screenshot: "none", "saved" or "failed"
    nav,                  \* the frame of one navigateToNextPage call (SpecNavigate)
    redir,                \* the frame of one redirect-handling call (SpecRedirect)
    runner,               \* the batch runner and its sessions (SpecSessions)
    proc,                 \* runTest around runFullTest: files written, exit code
    fill                  \* the frame of one fillField call (SpecFill)

vars == <<rev, pages, testData, pc, pageIdx, previousPageSkipped, alreadyOn,
          pageResult, fieldIdx, testResults, page, browser, thrown, probe,
          detLog, filled, navTried, fillLog, shot, nav, redir, runner, proc, fill, fill>>

\* no navigateToNextPage call is being followed step by step
NoNav ==
    [step |-> "idle", expectNewTab |-> FALSE, onFacebook |-> FALSE, opensTab |-> FALSE,
     waitForUrlChange |-> FALSE, retryIfNoNavigation |-> FALSE, href |-> <<>>,
     vis |-> {}, found |-> null, clicked |-> FALSE, clicks |-> 0,
     clickReturned |-> FALSE, navigated |-> FALSE, target |-> <<>>,
     listening |-> FALSE, tabEvent |-> "none", activePage |-> "orig",
     retries |-> 0, urlChanged |-> FALSE, verified |-> FALSE, recheckDue |-> FALSE,
     redirectRaised |-> FALSE, strategies |-> <<>>, fallbackPage |-> "none",
     tried |-> 0, err |-> NoErr, cause |-> "none"]

\* no redirect-handling call is being followed
NoRedir == [step |-> "idle"]

\* the batch runner has not been started
NoRunner == [step |-> "idle"]

\* runTest has not settled: nothing written, no exit code
NoProc == [step |-> "running", files |-> {}, writeFailed |-> FALSE, exitCode |-> -1]

\* no fillField call is being followed on its own
NoFill == [step |-> "idle"]

NoResult ==
    [pageNumber |-> 0, success |-> FALSE, skipped |-> FALSE,
     fieldsCompleted |-> 0, totalFields |-> 0, errors |-> <<>>]

NoProbe == [selectors |-> <<>>, vis |-> {}, ret |-> null]

Init ==
    /\ \/ /\ rev = "tf2"
          /\ \E cfg \in PageRichConfigs \cup FieldRichConfigs :
                pages = cfg[1] /\ testData = cfg[2]
       \/ /\ rev \in {"tf1", "p3b"}
          /\ \E cfg \in FieldRichConfigs : pages = cfg[1] /\ testData = cfg[2]
    /\ pc = "start"
    /\ pageIdx = 1
    /\ previousPageSkipped = FALSE
    /\ alreadyOn = FALSE
    /\ pageResult = NoResult
    /\ fieldIdx = 1
    /\ testResults = [success |-> FALSE, errors |-> <<>>, pageResults |-> <<>>,
                      endTime |-> FALSE, totalDuration |-> FALSE]
    /\ page = FALSE
    /\ browser = FALSE
    /\ thrown = NoErr
    /\ probe = NoProbe
    /\ detLog = <<>>
    /\ filled = {}
    /\ navTried = {}
    /\ fillLog = <<>>
    /\ shot = "none"
    /\ nav = NoNav
    /\ redir = NoRedir
    /\ runner = NoRunner
    /\ proc = NoProc
    /\ fill = NoFill

\* entries of pageResult.errors: `${field.fieldType}: ${error.message}` pushed
\* by the field loop, and the bare error.message pushed by testPage's catch
FieldErrEntry(err) == [kind |-> err.kind, field |-> err.field, prefixed |-> TRUE]

PageErrEntry(err) == [kind |-> err.kind, field |-> err.field, prefixed |-> FALSE]

\* Array.prototype.findIndex(p => p.pageNumber === n), 0 standing for -1
findIndex(ps, n) ==
    IF \E k \in 1..Len(ps) : ps[k].pageNumber = n
    THEN CHOOSE k \in 1..Len(ps) :
           /\ ps[k].pageNumber = n
           /\ \A m \in 1..(k - 1) : ps[m].pageNumber # n
    ELSE 0

\* index of the page the look-ahead of an undetected optional page probes
nextPageIndex(ps, k) == findIndex(ps, ps[k].pageNumber + 1)

DetEntry(k, probed, own, target, nextFound, outcome, inspection) ==
    [page |-> k, probed |-> probed, own |-> own, target |-> target,
     nextFound |-> nextFound, outcome |-> outcome, inspection |-> inspection]

\* ------------------------------------------------------------ runFullTest
\* catch block of runFullTest up to its first await (the screenshot);
\* the catch block of p0 does not assign totalDuration
Catch(err) ==
    /\ testResults' = [testResults EXCEPT !.success = FALSE,
                                          !.errors = Append(@, err),
                                          !.endTime = TRUE,
                                          !.totalDuration = IF rev = "p0" THEN @ ELSE TRUE]
    /\ thrown' = err

\* a catch that records the error and lets the page loop take the page again
PageThrows_retriesPage(pr, err) ==
    /\ pageResult' = [pr EXCEPT !.errors = Append(@, PageErrEntry(err))]
    /\ Catch(err)
    /\ pc' = "loop"

\* testPage's catch block followed by runFullTest's: the local pageResult
\* gets the message appended and is never pushed
PageThrows(pr, err) ==
    /\ pageResult' = [pr EXCEPT !.errors = Append(@, PageErrEntry(err))]
    /\ Catch(err)
    /\ pc' = "screenshot"

\* the page loop passing over the page that follows a skipped one
nextIndex_skipsFollowing(i, result) == IF result.skipped THEN i + 2 ELSE i + 1

\* the page loop's i++ once testPage has returned `result`
nextIndex(i, result) == i + 1

\* the skip branch pushing the result that the common exit pushes again
pushResult_twiceWhenSkipped(results, result) ==
    IF result.skipped THEN Append(Append(results, result), result)
    ELSE Append(results, result)

\* this.testResults.pageResults.push(pageResult)
pushResult(results, result) == Append(results, result)

\* testPage returned `result` to the page loop of runFullTest
PageReturns(result) ==
    /\ pageResult' = result
    /\ testResults' = [testResults EXCEPT !.pageResults = pushResult(@, result)]
    /\ previousPageSkipped' =
         IF rev # "tf2" THEN FALSE
         ELSE IF alreadyOn THEN FALSE ELSE result.skipped
    /\ alreadyOn' = FALSE
    /\ pageIdx' = nextIndex(pageIdx, result)
    /\ pc' = "loop"
    /\ thrown' = thrown

\* loadUserProfiles .. initBrowser .. page.goto(startUrl)
Start ==
    /\ pc = "start"
    /\ \E outcome \in {"ok", "configError", "gotoError"} :
         CASE outcome = "ok" ->
                /\ page' = TRUE /\ browser' = TRUE /\ pc' = "loop"
                /\ UNCHANGED <<testResults, thrown>>
           [] outcome = "configError" ->
                /\ Catch(Err("ConfigLoad", 0))
                /\ pc' = "cleanup"
                /\ UNCHANGED <<page, browser>>
           [] OTHER ->
                /\ page' = TRUE /\ browser' = TRUE
                /\ Catch(Err("Goto", 0))
                /\ pc' = "screenshot"
    /\ UNCHANGED <<rev, pages, testData, shot, nav, redir, runner, proc, fill, pageIdx, previousPageSkipped, alreadyOn,
                   pageResult, fieldIdx, probe, detLog, filled, navTried, fillLog>>

\* runFullTest, tf2 only: the previous page was skipped and this page has a
\* detection selector, so probe it (3000 ms) before calling testPage
PreCheck ==
    /\ pc = "loop" /\ pageIdx <= Len(pages)
    /\ rev = "tf2" /\ previousPageSkipped /\ pages[pageIdx].hasDetection
    /\ \E vis \in SUBSET {DetSel(pageIdx)} :
         LET sel == <<DetSel(pageIdx)>>
             currentPageDetected == waitForElement(sel, vis) IN
         /\ alreadyOn' = (currentPageDetected # null)
    /\ pc' = "enter"
    /\ UNCHANGED <<rev, pages, testData, shot, nav, redir, runner, proc, fill, pageIdx, previousPageSkipped, pageResult,
                   fieldIdx, testResults, page, browser, thrown, probe, detLog,
                   filled, navTried, fillLog>>

\* ---------------------------------------------------------------- testPage
\* entry of testPage: build pageResult, then await the load state
\* (tf1 and p0 have no load wait)
\* the pageResult literal counting only the fields that are not optional
NewPageResult_countsRequiredOnly(pg) ==
    [pageNumber |-> pg.pageNumber, success |-> FALSE, skipped |-> FALSE,
     fieldsCompleted |-> 0,
     totalFields |-> Cardinality({j \in 1..Len(pg.fields) : ~pg.fields[j].optional}),
     errors |-> <<>>]

\* the pageResult literal testPage starts from: totalFields = fields.length
NewPageResult(pg) ==
    [pageNumber |-> pg.pageNumber, success |-> FALSE, skipped |-> FALSE,
     fieldsCompleted |-> 0, totalFields |-> Len(pg.fields), errors |-> <<>>]

BeginPage ==
    /\ \/ pc = "enter"
       \/ /\ pc = "loop" /\ pageIdx <= Len(pages)
          /\ ~(rev = "tf2" /\ previousPageSkipped /\ pages[pageIdx].hasDetection)
    /\ LET pr == NewPageResult(pages[pageIdx]) IN
       \E loaded \in BOOLEAN :
         /\ (rev \in {"tf1", "p0"}) => loaded
         /\ IF loaded
            THEN /\ pageResult' = pr /\ pc' = "detect"
                 /\ UNCHANGED <<testResults, thrown>>
            ELSE PageThrows(pr, Err("LoadTimeout", 0))
    /\ fieldIdx' = 1
    /\ UNCHANGED <<rev, pages, testData, shot, nav, redir, runner, proc, fill, pageIdx, previousPageSkipped, alreadyOn,
                   page, browser, probe, detLog, filled, navTried, fillLog>>

\* what testPage does once its own detection wait is over:
\*   "fields"    go on to the field loop (detected, or nothing to detect)
\*   "lookahead" optional page: probe the next page's detection selector
\*   "skipped"   optional page: mark skipped without a look-ahead
\*   "inspect"   required page: inspectPageForAlternatives, then throw
\*   "failed"    required page: throw at once (tf1, p0)
detectOutcome_skipsRequired(r, pg, pageDetected, canLookAhead) ==
    IF ~pg.hasDetection \/ pageDetected THEN "fields"
    ELSE IF r = "tf2" THEN (IF canLookAhead THEN "lookahead" ELSE "skipped")
    ELSE IF r \in {"tf1", "p0"} THEN "failed"
    ELSE "inspect"

detectOutcome_skipsUndetectable(r, pg, pageDetected, canLookAhead) ==
    IF pageDetected THEN "fields"
    ELSE IF r = "tf2" /\ pg.optional
        THEN (IF canLookAhead THEN "lookahead" ELSE "skipped")
    ELSE IF ~pg.hasDetection THEN "fields"
    ELSE IF r \in {"tf1", "p0"} THEN "failed"
    ELSE "inspect"

detectOutcome(r, pg, pageDetected, canLookAhead) ==
    IF ~pg.hasDetection \/ pageDetected THEN "fields"
    ELSE IF r = "tf2" /\ pg.optional
        THEN (IF canLookAhead THEN "lookahead" ELSE "skipped")
    ELSE IF r \in {"tf1", "p0"} THEN "failed"
    ELSE "inspect"

\* after the look-ahead probe: both branches mark the page skipped
lookAheadOutcome_requiresAbsent(nextPageDetected) ==
    IF nextPageDetected THEN "inspect" ELSE "skipped"

lookAheadOutcome(nextPageDetected) == "skipped"

\* pageResult.skipped = true; pageResult.success = true
SkippedResult_withoutSuccess(pr) == [pr EXCEPT !.skipped = TRUE]

SkippedResult(pr) == [pr EXCEPT !.skipped = TRUE, !.success = TRUE]

\* the error testPage throws after inspectPageForAlternatives returned
afterInspect_errorContinues(inspection) ==
    CASE inspection = "onFacebook" -> [throws |-> TRUE, err |-> Err("StillOnFacebook", 0)]
      [] inspection = "error"      -> [throws |-> FALSE, err |-> NoErr]
      [] OTHER                     -> [throws |-> TRUE, err |-> Err("PageDetectionFailed", 0)]

afterInspect(inspection) ==
    IF inspection = "onFacebook"
    THEN [throws |-> TRUE, err |-> Err("StillOnFacebook", 0)]
    ELSE [throws |-> TRUE, err |-> Err("PageDetectionFailed", 0)]

\* page detection: if (pageDetection?.checkForElement) { waitForElement ... }
Detect ==
    /\ pc = "detect"
    /\ LET pg == pages[pageIdx]
           nxt == nextPageIndex(pages, pageIdx)
           canLookAhead == nxt # 0 /\ pages[nxt].hasDetection IN
       \E vis \in SUBSET {DetSel(pageIdx)} :
         LET pageDetected == pg.hasDetection /\ waitForElement(<<DetSel(pageIdx)>>, vis) # null
             out == detectOutcome(rev, pg, pageDetected, canLookAhead) IN
         CASE out = "fields" ->
                /\ pc' = "fields"
                /\ detLog' = Append(detLog, DetEntry(pageIdx, pg.hasDetection, pageDetected,
                                                     0, FALSE, "DETECTED", "none"))
                /\ UNCHANGED <<pageResult, testResults, thrown,
                               previousPageSkipped, alreadyOn, pageIdx>>
           [] out = "skipped" ->
                /\ PageReturns(SkippedResult(pageResult))
                /\ detLog' = Append(detLog, DetEntry(pageIdx, pg.hasDetection, pageDetected,
                                                     0, FALSE, "SKIPPED", "none"))
           [] out = "failed" ->
                /\ PageThrows(pageResult, Err("PageDetectionFailed", 0))
                /\ detLog' = Append(detLog, DetEntry(pageIdx, pg.hasDetection, pageDetected,
                                                     0, FALSE, "NOT_FOUND", "none"))
                /\ UNCHANGED <<previousPageSkipped, alreadyOn, pageIdx>>
           [] OTHER ->
                /\ pc' = out
                /\ UNCHANGED <<detLog, pageResult, testResults, thrown,
                               previousPageSkipped, alreadyOn, pageIdx>>
    /\ UNCHANGED <<rev, pages, testData, shot, nav, redir, runner, proc, fill, fieldIdx, page, browser, probe, filled,
                   navTried, fillLog>>

\* optional page not detected: probe the detection selector of the page
\* numbered pageNumber + 1 (5000 ms); the page is marked skipped either way
LookAhead ==
    /\ pc = "lookahead"
    /\ LET nxt == nextPageIndex(pages, pageIdx) IN
       \E vis \in SUBSET {DetSel(nxt)} :
         LET nextPageDetected == waitForElement(<<DetSel(nxt)>>, vis) # null
             out == lookAheadOutcome(nextPageDetected) IN
         IF out = "skipped"
         THEN /\ PageReturns(SkippedResult(pageResult))
              /\ detLog' = Append(detLog, DetEntry(pageIdx, TRUE, FALSE, nxt,
                                                   nextPageDetected, "SKIPPED", "none"))
         ELSE /\ pc' = out
              /\ UNCHANGED <<detLog, pageResult, testResults, thrown,
                             previousPageSkipped, alreadyOn, pageIdx>>
    /\ UNCHANGED <<rev, pages, testData, shot, nav, redir, runner, proc, fill, fieldIdx, page, browser, probe, filled,
                   navTried, fillLog>>

\* required page not found: inspectPageForAlternatives, then throw
Inspect ==
    /\ pc = "inspect"
    /\ \E inspection \in {"onFacebook", "notOnFacebook", "error"} :
         LET a == afterInspect(inspection) IN
         IF a.throws
         THEN /\ PageThrows(pageResult, a.err)
              /\ detLog' = Append(detLog, DetEntry(pageIdx, TRUE, FALSE, 0, FALSE,
                                                   "NOT_FOUND", inspection))
         ELSE /\ pc' = "fields"
              /\ detLog' = Append(detLog, DetEntry(pageIdx, TRUE, FALSE, 0, FALSE,
                                                   "DETECTED", inspection))
              /\ UNCHANGED <<pageResult, testResults, thrown>>
    /\ UNCHANGED <<rev, pages, testData, shot, nav, redir, runner, proc, fill, pageIdx, previousPageSkipped, alreadyOn,
                   fieldIdx, page, browser, probe, filled, navTried, fillLog>>

\* one iteration of testPage's field loop: the fillField call and the catch
FillField ==
    /\ pc = "fields" /\ fieldIdx <= Len(pages[pageIdx].fields)
    /\ LET field == pages[pageIdx].fields[fieldIdx]
           sel == FieldSelectors(fieldIdx) IN
       \E vis \in SUBSET Range(sel), interactOK \in BOOLEAN :
         LET foundSelector == waitForElement(sel, vis)
             r == fillField(rev, field, testData, foundSelector, interactOK)
             recorded == [pageResult EXCEPT !.errors = Append(@, FieldErrEntry(r.err))] IN
         /\ filled' = IF r.interacted THEN filled \cup {<<pageIdx, fieldIdx>>} ELSE filled
         /\ fillLog' = Append(fillLog, [page |-> pageIdx, field |-> fieldIdx,
                                        found |-> (foundSelector # null),
                                        ret |-> r.ret, err |-> r.err,
                                        completedBefore |-> pageResult.fieldsCompleted,
                                        completedAfter |-> pageResult.fieldsCompleted
                                                           + (IF r.ret = "true" THEN 1 ELSE 0)])
         /\ CASE r.ret = "true" ->
                   /\ pageResult' = [pageResult EXCEPT !.fieldsCompleted = @ + 1]
                   /\ fieldIdx' = fieldIdx + 1
                   /\ UNCHANGED <<pc, testResults, thrown>>
              [] r.ret = "false" ->
                   /\ fieldIdx' = fieldIdx + 1
                   /\ UNCHANGED <<pc, pageResult, testResults, thrown>>
              [] OTHER ->
                   IF isRequired(rev, field)
                   THEN /\ PageThrows(recorded, r.err)
                        /\ UNCHANGED fieldIdx
                   ELSE /\ pageResult' = recorded
                        /\ fieldIdx' = fieldIdx + 1
                        /\ UNCHANGED <<pc, testResults, thrown>>
    /\ UNCHANGED <<rev, pages, testData, shot, nav, redir, runner, proc, fill, pageIdx, previousPageSkipped, alreadyOn,
                   page, browser, probe, detLog, navTried>>

\* the error navigateToNextPage throws, NoErr when it returns.  p0 does not
\* resolve the selector first: it clicks the locator, and the click of an
\* element that is not there fails like any other click.
navigateError(r, foundSelector, clickOK) ==
    IF r = "p0"
    THEN (IF foundSelector = null \/ ~clickOK THEN Err("NavigationFailed", 0) ELSE NoErr)
    ELSE IF foundSelector = null THEN Err("NavigationElementNotFound", 0)
    ELSE IF ~clickOK THEN Err("NavigationFailed", 0)
    ELSE NoErr

\* navigateToNextPage, then pageResult.success = true and the push
Navigate ==
    /\ pc = "fields" /\ fieldIdx > Len(pages[pageIdx].fields)
    /\ pages[pageIdx].hasNav /\ ~pageResult.skipped
    /\ navTried' = navTried \cup {pageIdx}
    /\ \E vis \in SUBSET Range(NavSelectors), clickOK \in BOOLEAN :
         LET sel == IF rev = "p0" THEN <<NavSelectors[1]>> ELSE NavSelectors
             foundSelector == waitForElement(sel, vis)
             err == navigateError(rev, foundSelector, clickOK) IN
         /\ IF err # NoErr
            THEN /\ PageThrows(pageResult, err)
                 /\ UNCHANGED <<previousPageSkipped, alreadyOn, pageIdx>>
            ELSE PageReturns([pageResult EXCEPT !.success = TRUE])
    /\ UNCHANGED <<rev, pages, testData, shot, nav, redir, runner, proc, fill, fieldIdx, page, browser, probe, detLog,
                   filled, fillLog>>

successWithoutNav_requiresNav(pg) == pg.hasNav

\* `if (pageConfig.navigation && !pageResult.skipped)` guards the navigation
\* only: pageResult.success = true follows it whether the page has a
\* NavigationSpec or not
successWithoutNav(pg) == TRUE

\* no NavigationSpec: pageResult.success = true and the push
FinishWithoutNav ==
    /\ pc = "fields" /\ fieldIdx > Len(pages[pageIdx].fields)
    /\ ~(pages[pageIdx].hasNav /\ ~pageResult.skipped)
    /\ PageReturns([pageResult EXCEPT !.success = successWithoutNav(pages[pageIdx])])
    /\ UNCHANGED <<rev, pages, testData, shot, nav, redir, runner, proc, fill, fieldIdx, page, browser, probe, detLog,
                   filled, navTried, fillLog>>

\* ------------------------------------------------- runFullTest, the ending
\* page loop exhausted: success path
Complete ==
    /\ pc = "loop" /\ pageIdx > Len(pages)
    /\ testResults' = [testResults EXCEPT !.success = TRUE, !.endTime = TRUE,
                                          !.totalDuration = TRUE]
    /\ pc' = "cleanup"
    /\ UNCHANGED <<rev, pages, testData, shot, nav, redir, runner, proc, fill, pageIdx, previousPageSkipped, alreadyOn,
                   pageResult, fieldIdx, page, browser, thrown, probe, detLog,
                   filled, navTried, fillLog>>

\* if (this.page) await this.page.screenshot(...): a failed screenshot is
\* swallowed by the try/catch around it; p0 has no try/catch there, so the
\* screenshot's own error leaves the catch block in place of `throw error`
Screenshot ==
    /\ pc = "screenshot"
    /\ \E saved \in BOOLEAN :
         /\ shot' = IF saved THEN "saved" ELSE "failed"
         /\ thrown' = IF ~saved /\ rev = "p0" THEN Err("Screenshot", 0) ELSE thrown
    /\ pc' = "cleanup"
    /\ UNCHANGED <<rev, pages, testData, nav, redir, runner, proc, fill, pageIdx, previousPageSkipped, alreadyOn,
                   pageResult, fieldIdx, testResults, page, browser, probe,
                   detLog, filled, navTried, fillLog>>

closeBrowser_leavesOpen(open) == open

\* cleanup: `if (this.browser) await this.browser.close()`
closeBrowser(open) == FALSE

\* finally { await this.cleanup() }
Cleanup ==
    /\ pc = "cleanup"
    /\ browser' = closeBrowser(browser)
    /\ pc' = "done"
    /\ UNCHANGED <<rev, pages, testData, shot, nav, redir, runner, proc, fill, pageIdx, previousPageSkipped, alreadyOn,
                   pageResult, fieldIdx, testResults, page, thrown, probe, detLog,
                   filled, navTried, fillLog>>

Next ==
    \/ Start
    \/ PreCheck
    \/ BeginPage
    \/ Detect
    \/ LookAhead
    \/ Inspect
    \/ FillField
    \/ Navigate
    \/ FinishWithoutNav
    \/ Complete
    \/ Screenshot
    \/ Cleanup

Spec == Init /\ [][Next]_vars

TypeOK ==
    /\ rev \in Revisions
    /\ pc \in {"start", "loop", "enter", "detect", "lookahead", "inspect",
               "fields", "screenshot", "cleanup", "done"}
    /\ pageIdx \in 1..(Len(pages) + 1)
    /\ pageResult.fieldsCompleted \in 0..MaxFields
    /\ shot \in {"none", "saved", "failed"}

\* ------------------------------------------------- the first revision (p0)
\* part_000 has no optional pages, no look-ahead and no inspection
LegacyConfigs ==
    FieldRichConfigs \cup (PageLists(2, ShortFieldLists, {FALSE}) \X {1..MaxFields})

InitLegacy ==
    /\ rev = "p0"
    /\ \E cfg \in LegacyConfigs : pages = cfg[1] /\ testData = cfg[2]
    /\ pc = "start"
    /\ pageIdx = 1
    /\ previousPageSkipped = FALSE
    /\ alreadyOn = FALSE
    /\ pageResult = NoResult
    /\ fieldIdx = 1
    /\ testResults = [success |-> FALSE, errors |-> <<>>, pageResults |-> <<>>,
                      endTime |-> FALSE, totalDuration |-> FALSE]
    /\ page = FALSE
    /\ browser = FALSE
    /\ thrown = NoErr
    /\ probe = NoProbe
    /\ detLog = <<>>
    /\ filled = {}
    /\ navTried = {}
    /\ fillLog = <<>>
    /\ shot = "none"
    /\ nav = NoNav
    /\ redir = NoRedir
    /\ runner = NoRunner
    /\ proc = NoProc
    /\ fill = NoFill

NextLegacy ==
    \/ Start
    \/ BeginPage
    \/ Detect
    \/ FillField
    \/ Navigate
    \/ FinishWithoutNav
    \/ Complete
    \/ Screenshot
    \/ Cleanup

SpecLegacy == InitLegacy /\ [][NextLegacy]_vars

\* ------------------------------------------------------------------ runTest
\* runTest of test-funnel.js (tf2) and of part_000 (p0): runFullTest, then
\* saveResults and process.exit.  File names are kept as the strings the code
\* builds; <browser> and <ts> stand for process.env.BROWSER and Date.now().
DefaultOutputPath == "test-results.json"

FailedOutputPath == "failed-test-results.json"

\* outputPath.includes('browser')
includesBrowser(outputPath) == outputPath \notin {DefaultOutputPath, FailedOutputPath}

\* the name saveResults writes to: tf2 keeps the argument only if it contains
\* 'browser' and otherwise builds a name of its own; p0 uses the argument
finalOutputPath(r, outputPath) ==
    IF r = "p0" THEN outputPath
    ELSE IF includesBrowser(outputPath) THEN outputPath
    ELSE "test-results-<browser>-<ts>.json"

exitCodeOf_alwaysZero(resolved, saved) == 0

\* process.exit(0) ends the try, process.exit(1) the catch, which is entered
\* when runFullTest or the first saveResults rejects
exitCodeOf(resolved, saved) == IF resolved /\ saved THEN 0 ELSE 1

RunTestConfigs == PageLists(2, ShortFieldLists, {FALSE}) \X {1..MaxFields}

InitRunTest ==
    /\ rev \in {"tf2", "p0"}
    /\ \E cfg \in RunTestConfigs : pages = cfg[1] /\ testData = cfg[2]
    /\ pc = "start"
    /\ pageIdx = 1
    /\ previousPageSkipped = FALSE
    /\ alreadyOn = FALSE
    /\ pageResult = NoResult
    /\ fieldIdx = 1
    /\ testResults = [success |-> FALSE, errors |-> <<>>, pageResults |-> <<>>,
                      endTime |-> FALSE, totalDuration |-> FALSE]
    /\ page = FALSE
    /\ browser = FALSE
    /\ thrown = NoErr
    /\ probe = NoProbe
    /\ detLog = <<>>
    /\ filled = {}
    /\ navTried = {}
    /\ fillLog = <<>>
    /\ shot = "none"
    /\ nav = NoNav
    /\ redir = NoRedir
    /\ runner = NoRunner
    /\ proc = NoProc
    /\ fill = NoFill

\* runFullTest has settled (resolved iff it re-raised nothing).  Resolved:
\* saveResults(), exit 0.  Rejected, or the first write failed:
\* saveResults('failed-test-results.json'), exit 1; if that write fails too,
\* runTest's own promise is rejected with nothing handling it and Node ends
\* the process with code 1.
RunTestSettles ==
    /\ pc = "done"
    /\ proc.step = "running"
    /\ \E saved, savedFailure \in BOOLEAN :
         LET resolved == thrown = NoErr
             first == IF resolved /\ saved
                      THEN {finalOutputPath(rev, DefaultOutputPath)} ELSE {}
             second == IF ~(resolved /\ saved) /\ savedFailure
                       THEN {finalOutputPath(rev, FailedOutputPath)} ELSE {} IN
         proc' = [step |-> "exited",
                  files |-> first \cup second,
                  writeFailed |-> (resolved /\ ~saved)
                                  \/ (~(resolved /\ saved) /\ ~savedFailure),
                  exitCode |-> exitCodeOf(resolved, saved)]
    /\ UNCHANGED <<rev, pages, testData, pc, pageIdx, previousPageSkipped, alreadyOn,
                   pageResult, fieldIdx, testResults, page, browser, thrown, probe,
                   detLog, filled, navTried, fillLog, shot, nav, redir, runner, fill>>

NextRunTest ==
    \/ Start
    \/ PreCheck
    \/ BeginPage
    \/ Detect
    \/ LookAhead
    \/ Inspect
    \/ FillField
    \/ Navigate
    \/ FinishWithoutNav
    \/ Complete
    \/ Screenshot
    \/ Cleanup
    \/ RunTestSettles

SpecRunTest == InitRunTest /\ [][NextRunTest]_vars

\* ------------------------------------------- navigateToNextPage step by step
\* One navigateToNextPage call of revision tf2, tf1, p2 or p0, followed across
\* its awaits.  The browser is a second process: when the clicked control
\* opens a new tab (opensTab), the context's 'page' event fires at some moment
\* after the click was issued, before or after click() returns.  waitForEvent
\* only sees events that fire after it was called: an event that fires with no
\* listener registered is missed.
NavRevisions == {"tf2", "tf1", "p2", "p0"}

\* the href of the clicked link: empty, or a wrapper link whose query carries
\* the destination as u=https%3A%2F%2Fdest.example%2Fx (a sequence of tokens)
EncodedDest == <<"https", "%3A", "%2F", "%2F", "dest.example", "%2F", "x">>

Hrefs == {<<>>, EncodedDest}

\* decodeURIComponent on the captured group of href.match(/u=([^&]+)/)
decodeURIComponent(v) ==
    [i \in DOMAIN v |-> CASE v[i] = "%3A" -> ":"
                          [] v[i] = "%2F" -> "/"
                          [] OTHER        -> v[i]]

NavFrames ==
    { [NoNav EXCEPT !.step = "resolve", !.expectNewTab = f[1], !.onFacebook = f[2],
                    !.opensTab = f[3], !.waitForUrlChange = f[4],
                    !.retryIfNoNavigation = f[5], !.vis = v, !.href = h]
      : f \in [1..5 -> BOOLEAN], v \in SUBSET Range(NavSelectors),
        h \in Hrefs }

\* does the call wait for a new tab after the click?  p2 only does so on the
\* wrapper host (currentUrl.includes('facebook.com') && expectNewTab), tf1 on
\* the wrapper host whatever expectNewTab says, p0 never
awaitsNewTab(r, n) ==
    CASE r = "p2"  -> n.onFacebook /\ n.expectNewTab
      [] r = "tf1" -> n.onFacebook
      [] r = "p0"  -> FALSE
      [] OTHER     -> n.expectNewTab

\* is waitForEvent('page') called before the click is issued?  p2 and tf1
\* create newPagePromise first; tf2 calls waitForEvent after
\* `await this.page.click`
listensBeforeClick(r, n) == r \in {"p2", "tf1"} /\ awaitsNewTab(r, n)

\* const maxRetries = retryIfNoNavigation ? 3 : 1
maxRetries(n) == IF n.retryIfNoNavigation THEN 3 ELSE 1

\* the final test of the URL loop: tf1 tolerates an unchanged URL when the
\* pre-click URL is on facebook.com, p0 and p2 do not
unchangedUrlThrows(r, n) ==
    IF r = "tf1" THEN ~n.onFacebook ELSE TRUE

NavFailWith(n, kind, cause) ==
    [n EXCEPT !.step = "failed", !.err = Err(kind, 0), !.cause = cause]

NavFail(n, kind) == NavFailWith(n, kind, "none")

InitNavigate ==
    /\ rev \in NavRevisions
    /\ pages = <<>>
    /\ testData = {}
    /\ pc = "navigate"
    /\ pageIdx = 1
    /\ previousPageSkipped = FALSE
    /\ alreadyOn = FALSE
    /\ pageResult = NoResult
    /\ fieldIdx = 1
    /\ testResults = [success |-> FALSE, errors |-> <<>>, pageResults |-> <<>>,
                      endTime |-> FALSE, totalDuration |-> FALSE]
    /\ page = TRUE
    /\ browser = TRUE
    /\ thrown = NoErr
    /\ probe = NoProbe
    /\ detLog = <<>>
    /\ filled = {}
    /\ navTried = {}
    /\ fillLog = <<>>
    /\ shot = "none"
    /\ nav \in NavFrames
    /\ redir = NoRedir
    /\ runner = NoRunner
    /\ proc = NoProc
    /\ fill = NoFill

NavIdle ==
    UNCHANGED <<rev, pages, testData, redir, runner, proc, fill, pc, pageIdx, previousPageSkipped, alreadyOn,
                pageResult, fieldIdx, testResults, page, browser, thrown, probe,
                detLog, filled, navTried, fillLog, shot>>

\* waitForElement on the navigation candidates, then the first click.
\* Nothing resolves: tf2 and tf1 throw 'Navigation element not found'; p2
\* first inspects the page and, on the wrapper host with a usable external
\* link, navigates with page.goto and returns true.  p0 resolves nothing: it
\* clicks locator(selector), and the click of a missing element times out.
NavResolve ==
    /\ nav.step = "resolve"
    /\ LET sel == IF rev = "p0" THEN <<NavSelectors[1]>> ELSE NavSelectors
           foundSelector == waitForElement(sel, nav.vis) IN
       IF foundSelector = null
       THEN \E validLink, gotoOK \in BOOLEAN :
              IF rev = "p2" /\ nav.onFacebook /\ validLink
              THEN nav' = [nav EXCEPT !.navigated = TRUE,
                                      !.step = IF gotoOK THEN "done" ELSE "failed",
                                      !.err = IF gotoOK THEN NoErr ELSE Err("Goto", 0)]
              ELSE IF rev = "p0"
              THEN nav' = NavFail(nav, "NavigationFailed")
              ELSE nav' = NavFail(nav, "NavigationElementNotFound")
       ELSE nav' = [nav EXCEPT !.found = foundSelector,
                               !.listening = listensBeforeClick(rev, nav),
                               !.clicked = TRUE,
                               !.clicks = 1,
                               !.step = "clicking"]
    /\ NavIdle

\* the browser opens the new tab: the 'page' event fires
TabOpens ==
    /\ nav.step \in {"clicking", "awaitTab"}
    /\ nav.opensTab
    /\ nav.tabEvent = "none"
    /\ nav' = [nav EXCEPT !.tabEvent = IF nav.listening THEN "caught" ELSE "missed"]
    /\ NavIdle

\* click() settles; a call that expects a new tab now waits for the event
\* (tf2 registers its listener here)
ClickReturns ==
    /\ nav.step = "clicking"
    /\ \E clickOK \in BOOLEAN :
         IF ~clickOK THEN nav' = NavFail(nav, "NavigationFailed")
         ELSE IF awaitsNewTab(rev, nav)
         THEN nav' = [nav EXCEPT !.clickReturned = TRUE, !.listening = TRUE,
                                 !.step = "awaitTab"]
         ELSE nav' = [nav EXCEPT !.clickReturned = TRUE, !.step = "settle"]
    /\ NavIdle

\* p2, after the new tab or its redirect handling failed: Method 2 decodes the
\* u= parameter of an l.facebook.com href and calls page.goto on it, Method 3
\* waits and accepts a same-tab navigation away from facebook.com
\* Both work on this.page as it is when the catch runs.
p2Fallback(n) ==
    LET on == [n EXCEPT !.fallbackPage = n.activePage] IN
    IF n.href # <<>>
    THEN { [on EXCEPT !.strategies = Append(@, "direct"), !.navigated = TRUE,
                      !.target = decodeURIComponent(n.href), !.step = "done"],
           [on EXCEPT !.strategies = Append(@, "direct"),
                      !.target = decodeURIComponent(n.href),
                      !.step = "failed", !.err = Err("Goto", 0)] }
    ELSE { [on EXCEPT !.strategies = Append(@, "sameTab"), !.step = "done"],
           [on EXCEPT !.strategies = Append(@, "sameTab"),
                      !.step = "failed", !.err = Err("AllMethodsFailed", 0)] }

pageAfterTab_switchesBeforeRedirect(caught, redirectOK) ==
    IF caught THEN "newtab" ELSE "orig"

\* p2: `this.page = newPage` stands after the awaited redirect handling, so
\* the handle is switched only when the tab opened and the handling returned
pageAfterTab(caught, redirectOK) ==
    IF caught /\ redirectOK THEN "newtab" ELSE "orig"

\* the wait for the new tab ends: with the event or with the timeout.
\*   tf2: this.page = newPage, or the timeout error wrapped by the catch
\*   tf1: newPage.waitForLoadState, this.page = newPage, return true; on a
\*        timeout of either wait, fall back to the regular click (a second
\*        click of the same element)
\*   p2:  handleFacebookRedirectsAggressively(newPage), this.page = newPage,
\*        return true; any error of the tab wait or of the redirect handling
\*        is caught and the fallback methods run
AwaitTab ==
    /\ nav.step = "awaitTab"
    /\ CASE rev = "tf2" ->
              IF nav.tabEvent = "caught"
              THEN nav' = [nav EXCEPT !.activePage = "newtab", !.step = "settle"]
              ELSE nav' = NavFailWith(nav, "NavigationFailed", "NewTabTimeout")
         [] rev = "tf1" ->
              \E loadOK, clickOK \in BOOLEAN :
                IF nav.tabEvent = "caught" /\ loadOK
                THEN nav' = [nav EXCEPT !.activePage = "newtab", !.step = "done"]
                ELSE IF clickOK
                THEN nav' = [nav EXCEPT !.clicks = @ + 1, !.step = "settle"]
                ELSE nav' = NavFail(nav, "NavigationFailed")
         [] OTHER ->
              \E redirect \in {"ok", "raised"} :
                LET tried == [nav EXCEPT !.strategies = Append(@, "newTab"),
                                         !.activePage = pageAfterTab(nav.tabEvent = "caught",
                                                                     redirect = "ok")] IN
                IF nav.tabEvent = "caught" /\ redirect = "ok"
                THEN nav' = [tried EXCEPT !.step = "done"]
                ELSE nav' \in p2Fallback([tried EXCEPT !.redirectRaised =
                                                (nav.tabEvent = "caught")])
    /\ NavIdle

\* waitForTimeout(waitAfterClick), then the start of the URL verification.
\* tf2 calls page.waitForURL(url => url !== this.page.url()): the predicate
\* compares with the URL the page has when it is evaluated, never with the
\* pre-click URL, so the call's outcome (resolve, or time out on the load
\* state) does not depend on whether the URL changed.
Settle ==
    /\ nav.step = "settle"
    /\ IF ~nav.waitForUrlChange
       THEN nav' = [nav EXCEPT !.step = IF rev = "tf2" THEN "redirect" ELSE "done"]
       ELSE IF rev = "tf2"
       THEN \E changed, waitOK \in BOOLEAN :
              nav' = IF waitOK
                     THEN [nav EXCEPT !.verified = TRUE, !.urlChanged = changed,
                                      !.step = "redirect"]
                     ELSE NavFailWith([nav EXCEPT !.verified = TRUE,
                                                  !.urlChanged = changed],
                                      "NavigationFailed", "UrlWaitTimeout")
       ELSE nav' = [nav EXCEPT !.step = "urlcheck"]
    /\ NavIdle

\* tf1, p0, p2: one turn of `while (!urlChanged && retries < maxRetries)`, or
\* the test that follows the loop
UrlCheck ==
    /\ nav.step = "urlcheck"
    /\ IF ~nav.urlChanged /\ nav.retries < maxRetries(nav)
       THEN \E changed, clickOK \in BOOLEAN :
              LET seen == [nav EXCEPT !.verified = TRUE, !.recheckDue = FALSE] IN
              IF changed
              THEN nav' = [seen EXCEPT !.urlChanged = TRUE]
              ELSE IF nav.retryIfNoNavigation /\ nav.retries < maxRetries(nav) - 1
              THEN IF clickOK
                   THEN nav' = [seen EXCEPT !.clicks = @ + 1, !.recheckDue = TRUE,
                                            !.retries = @ + 1]
                   ELSE nav' = NavFail(seen, "NavigationFailed")
              ELSE nav' = [seen EXCEPT !.retries = @ + 1]
       ELSE IF ~nav.urlChanged /\ unchangedUrlThrows(rev, nav)
       THEN nav' = NavFail(nav, "NoUrlChange")
       ELSE nav' = [nav EXCEPT !.step = "done"]
    /\ NavIdle

\* continueSelectors of handleFacebookRedirect: six candidates
continueSelectors == 6

\* tf2: handleFacebookRedirect.  Off facebook.com it returns true; on
\* facebook.com it clicks through continue elements and returns true only
\* after waitForURL saw the page leave facebook.com, otherwise it throws and
\* navigateToNextPage wraps the message ('Navigation failed: ' + message).
\* The href of the clicked link is never decoded.
Redirect ==
    /\ nav.step = "redirect"
    /\ \E nowOnWrapper \in BOOLEAN :
         IF ~nowOnWrapper THEN nav' = [nav EXCEPT !.step = "done"]
         ELSE nav' = [nav EXCEPT !.strategies = Append(@, "clickThrough"),
                                 !.step = "continue"]
    /\ NavIdle

\* one turn of `for (const selector of continueSelectors)`: waitForElement
\* (10 s), and for a candidate that resolves the click and waitForURL (15 s);
\* a click or wait that fails is logged and the next candidate is taken.
\* After the last candidate the handler throws.
ContinueTry ==
    /\ nav.step = "continue"
    /\ IF nav.tried < continueSelectors
       THEN \E found, left \in BOOLEAN :
              IF found /\ left
              THEN nav' = [nav EXCEPT !.tried = @ + 1, !.step = "done"]
              ELSE nav' = [nav EXCEPT !.tried = @ + 1]
       ELSE nav' = NavFailWith([nav EXCEPT !.redirectRaised = TRUE],
                               "NavigationFailed", "RedirectChainIncomplete")
    /\ NavIdle

NextNavigate ==
    \/ NavResolve
    \/ TabOpens
    \/ ClickReturns
    \/ AwaitTab
    \/ Settle
    \/ UrlCheck
    \/ Redirect
    \/ ContinueTry

SpecNavigate == InitNavigate /\ [][NextNavigate]_vars

\* ------------------------------------------------ termination of one run
\* runFullTest as a whole, and one navigateToNextPage call followed through
\* its click-retry loop and its redirect handling.  The program is a single
\* chain of awaits; under the assumption that every browser primitive
\* settles (resolves, or rejects at its timeout) each enabled step of the
\* chain is eventually taken, which is weak fairness of the program's steps.
\* The browser opening a tab is not a step of the program.
InitFunnel == InitRunTest \/ InitNavigate

ProgramStep ==
    \/ Start
    \/ PreCheck
    \/ BeginPage
    \/ Detect
    \/ LookAhead
    \/ Inspect
    \/ FillField
    \/ Navigate
    \/ FinishWithoutNav
    \/ Complete
    \/ Screenshot
    \/ Cleanup
    \/ NavResolve
    \/ ClickReturns
    \/ AwaitTab
    \/ Settle
    \/ UrlCheck
    \/ Redirect
    \/ ContinueTry

NextFunnel ==
    \/ Start
    \/ PreCheck
    \/ BeginPage
    \/ Detect
    \/ LookAhead
    \/ Inspect
    \/ FillField
    \/ Navigate
    \/ FinishWithoutNav
    \/ Complete
    \/ Screenshot
    \/ Cleanup
    \/ NavResolve
    \/ TabOpens
    \/ ClickReturns
    \/ AwaitTab
    \/ Settle
    \/ UrlCheck
    \/ Redirect
    \/ ContinueTry

FairFunnel == InitFunnel /\ [][NextFunnel]_vars /\ WF_vars(ProgramStep)

\* ------------------------------- handleFacebookRedirectsAggressively (p2)
\* One call of part_002's redirect handler, one loop turn per step.  The page
\* is a second process: it may move to another URL at any moment.  URLs are
\* classified by the two substring tests the handler applies.
\*   wrapper        a facebook.com URL without the target domain in it
\*   wrapperEmbeds  a facebook.com URL carrying the target domain in a query
\*                  parameter (l.facebook.com/l.php?u=...opph3hftrk.com...)
\*   target         a URL on opph3hftrk.com
\*   other          any other URL
Urls == {"wrapper", "wrapperEmbeds", "target", "other"}

\* url.includes('l.facebook.com') || url.includes('facebook.com')
includesFacebook(u) == u \in {"wrapper", "wrapperEmbeds"}

\* url.includes('opph3hftrk.com')
includesTarget(u) == u \in {"target", "wrapperEmbeds"}

\* the page's host is the wrapper host
onWrapperHost(u) == u \in {"wrapper", "wrapperEmbeds"}

\* const maxRedirects = 15
maxRedirects == 15

\* the maxWaitTime argument, in seconds (default 45000 ms)
MaxWaitTimes == {9, 45, 150}

\* the while condition, on the loop's own finalUrl
loopContinues(r) ==
    /\ includesFacebook(r.finalUrl)
    /\ ~includesTarget(r.finalUrl)
    /\ r.redirectCount < maxRedirects
    /\ r.elapsed < r.maxWaitTime

backoffDue_fromFirstHop(redirectCount) == redirectCount > 0

\* if (redirectCount > 5), tested after redirectCount++
backoffDue(redirectCount) == redirectCount > 5

\* the test before the final throw
stillOnFacebook(u) == ~includesTarget(u) /\ includesFacebook(u)

RedirFrames ==
    [step : {"loop"}, pageUrl : Urls, finalUrl : Urls, redirectCount : {0},
     elapsed : {0}, maxWaitTime : MaxWaitTimes, iterations : {0},
     startedAt : {<<>>}, backoffs : {{}}, moves : {0}, result : {"none"}]

InitRedirect ==
    /\ rev = "p2"
    /\ pages = <<>>
    /\ testData = {}
    /\ pc = "redirect"
    /\ pageIdx = 1
    /\ previousPageSkipped = FALSE
    /\ alreadyOn = FALSE
    /\ pageResult = NoResult
    /\ fieldIdx = 1
    /\ testResults = [success |-> FALSE, errors |-> <<>>, pageResults |-> <<>>,
                      endTime |-> FALSE, totalDuration |-> FALSE]
    /\ page = TRUE
    /\ browser = TRUE
    /\ thrown = NoErr
    /\ probe = NoProbe
    /\ detLog = <<>>
    /\ filled = {}
    /\ navTried = {}
    /\ fillLog = <<>>
    /\ shot = "none"
    /\ nav = NoNav
    /\ redir \in {r \in RedirFrames : r.finalUrl = r.pageUrl}
    /\ runner = NoRunner
    /\ proc = NoProc
    /\ fill = NoFill

RedirIdle ==
    UNCHANGED <<rev, pages, testData, pc, pageIdx, previousPageSkipped, alreadyOn,
                pageResult, fieldIdx, testResults, page, browser, thrown, probe,
                detLog, filled, navTried, fillLog, shot, nav, runner, proc, fill>>

\* how often the page may move during one call
MaxMoves == 2

\* the browser follows a redirect: the page is at another URL
PageMoves ==
    /\ redir.step \in {"loop", "final"}
    /\ redir.moves < MaxMoves
    /\ \E u \in Urls \ {redir.pageUrl} :
         redir' = [redir EXCEPT !.pageUrl = u, !.moves = @ + 1]
    /\ RedirIdle

\* one evaluation of the while condition and, if it holds, one turn of the
\* loop: wait 3 s, read page.url(); a changed URL becomes finalUrl (break on
\* the target domain); an unchanged one tries the redirect links of the page
\* (page.goto on a link whose href includes the target domain, then break;
\* errors are caught); then redirectCount++ and the back-off wait
Hop ==
    /\ redir.step = "loop"
    /\ IF ~loopContinues(redir)
       THEN redir' = [redir EXCEPT !.step = "final"]
       ELSE LET turn == [redir EXCEPT !.iterations = @ + 1,
                                      !.startedAt = Append(@, [elapsed |-> redir.elapsed,
                                                               url |-> redir.finalUrl]),
                                      !.elapsed = @ + 3]
                counted(r) ==
                    [r EXCEPT !.redirectCount = @ + 1,
                              !.backoffs = IF backoffDue(r.redirectCount + 1)
                                           THEN @ \cup {r.iterations} ELSE @,
                              !.elapsed = IF backoffDue(r.redirectCount + 1)
                                          THEN @ + 5 ELSE @] IN
            IF redir.pageUrl # redir.finalUrl
            THEN LET seen == [turn EXCEPT !.finalUrl = redir.pageUrl] IN
                 IF includesTarget(redir.pageUrl)
                 THEN redir' = [seen EXCEPT !.step = "final"]
                 ELSE redir' = counted(seen)
            ELSE \E link \in {"none", "error"} \cup {u \in Urls : includesTarget(u)} :
                   IF link \in Urls
                   THEN redir' = [turn EXCEPT !.pageUrl = link, !.finalUrl = link,
                                              !.step = "final"]
                   ELSE redir' = counted(turn)
    /\ RedirIdle

\* after the loop: wait 3 s, wait for networkidle (errors caught), re-read
\* page.url() and throw if it is a facebook.com URL without the target domain
Final ==
    /\ redir.step = "final"
    /\ redir' = [redir EXCEPT !.step = "ended",
                              !.elapsed = @ + 3,
                              !.finalUrl = redir.pageUrl,
                              !.result = IF stillOnFacebook(redir.pageUrl)
                                         THEN "raised" ELSE "returned"]
    /\ RedirIdle

NextRedirect ==
    \/ PageMoves
    \/ Hop
    \/ Final

SpecRedirect == InitRedirect /\ [][NextRedirect]_vars

\* the handler's own steps are always taken: each is an await on a timer or on
\* a call with a timeout
FairRedirect == SpecRedirect /\ WF_vars(Hop) /\ WF_vars(Final)

\* ------------------------------------------- the batch runner and its sessions
\* main() of the CLI runner (part_004) and MobileSessionRunner.run/runSession.
\* Time is counted in units of 3 minutes on one clock; a session's awaits end
\* at moments the environment chooses.

\* how many sessions a parallel run may be asked for
MaxSessions == 6

\* how many sessions a sequential run may be asked for
MaxSequential == 2

\* const batchSize = 5
batchSize == 5

\* this.sessionDuration = 15 * 60 * 1000, in units of 3 minutes
sessionDuration == 5

\* this.funnelDuration = 3 * 60 * 1000, in units of 3 minutes
funnelDuration == 1

\* this.warmupDuration = 12 * 60 * 1000, in units of 3 minutes
warmupDuration == 4

\* the longest a session's own work is followed
MaxOverrun == 1

\* how many rows User-Data.csv and android-device-profiles.csv may hold
ProfileCounts == 1..2

ActivePhases == {"launching", "warmup", "funnelInit", "funnelPages", "closing", "hold"}

NoSession ==
    [phase |-> "none", start |-> 0, launched |-> 0, user |-> null,
     funnelUser |-> null, funnelBrowser |-> "none", result |-> "none",
     warmStart |-> 0, warmupTook |-> -1, funnelRan |-> FALSE]

RunnerFrame(m, n, skip) ==
    [step |-> "start", mode |-> m, sessions |-> n, skipWarmup |-> skip,
     profilesLoaded |-> FALSE,
     nProfiles |-> 0, next |-> 0, clock |-> 0, waitUntil |-> 0,
     sess |-> [i \in 0..(n - 1) |-> NoSession]]

RunnerFrames ==
    {RunnerFrame("sequential", n, skip) : n \in 1..MaxSequential, skip \in BOOLEAN}
        \cup {RunnerFrame("parallel", n, skip) : n \in 1..MaxSessions, skip \in BOOLEAN}

InitSessions ==
    /\ rev = "tf2"
    /\ pages = <<>>
    /\ testData = {}
    /\ pc = "sessions"
    /\ pageIdx = 1
    /\ previousPageSkipped = FALSE
    /\ alreadyOn = FALSE
    /\ pageResult = NoResult
    /\ fieldIdx = 1
    /\ testResults = [success |-> FALSE, errors |-> <<>>, pageResults |-> <<>>,
                      endTime |-> FALSE, totalDuration |-> FALSE]
    /\ page = TRUE
    /\ browser = TRUE
    /\ thrown = NoErr
    /\ probe = NoProbe
    /\ detLog = <<>>
    /\ filled = {}
    /\ navTried = {}
    /\ fillLog = <<>>
    /\ shot = "none"
    /\ nav = NoNav
    /\ redir = NoRedir
    /\ runner \in RunnerFrames
    /\ proc = NoProc
    /\ fill = NoFill

SessIdle ==
    UNCHANGED <<rev, pages, testData, pc, pageIdx, previousPageSkipped, alreadyOn,
                pageResult, fieldIdx, testResults, page, browser, thrown, probe,
                detLog, filled, navTried, fillLog, shot, nav, redir, proc, fill>>

Indices(r) == 0..(r.sessions - 1)

Active(r) == {i \in Indices(r) : r.sess[i].phase \in ActivePhases}

\* runSession up to its first await: this.userProfiles[sessionId %
\* this.userProfiles.length] throws a TypeError when loadProfiles never ran on
\* this runner (userProfiles is undefined), and the promise is rejected
beginSession(r, i) ==
    IF ~r.profilesLoaded
    THEN [r EXCEPT !.sess[i].phase = "rejected", !.sess[i].launched = @ + 1,
                   !.sess[i].start = r.clock]
    ELSE [r EXCEPT !.sess[i].phase = "launching", !.sess[i].launched = @ + 1,
                   !.sess[i].start = r.clock,
                   !.sess[i].user = i % r.nProfiles]

\* process.exit: every session still in flight dies with the process
exitProcess(r, code) ==
    [r EXCEPT !.step = code,
              !.sess = [i \in Indices(r) |->
                          IF r.sess[i].phase \in ActivePhases
                          THEN [r.sess[i] EXCEPT !.phase = "killed"]
                          ELSE r.sess[i]]]

\* main(): mode '2' runs the batches itself on fresh runners; otherwise
\* new MobileSessionRunner().run(), whose first await is loadProfiles()
Main ==
    /\ runner.step = "start"
    /\ IF runner.mode = "parallel"
       THEN runner' = [runner EXCEPT !.step = "batch"]
       ELSE \E loaded \in BOOLEAN, n \in ProfileCounts :
              IF loaded
              THEN runner' = [runner EXCEPT !.step = "running", !.profilesLoaded = TRUE,
                                            !.nProfiles = n]
              ELSE runner' = exitProcess(runner, "exit1")
    /\ SessIdle

\* run(): for (i < this.sessions) await this.runSession(i); then the result
\* file and main's process.exit(0).  A rejected runSession rejects run(), and
\* main().catch exits with 1.
SequentialRun ==
    /\ runner.step = "running"
    /\ Active(runner) = {}
    /\ IF \E i \in Indices(runner) : runner.sess[i].phase = "rejected"
       THEN runner' = exitProcess(runner, "exit1")
       ELSE IF runner.next < runner.sessions
       THEN runner' = [beginSession(runner, runner.next) EXCEPT !.next = @ + 1]
       ELSE runner' = exitProcess(runner, "exit0")
    /\ SessIdle

BatchOf(r) ==
    {i \in Indices(r) : r.next * batchSize <= i /\ i < (r.next + 1) * batchSize}

RECURSIVE beginAll(_, _)
beginAll(r, is) ==
    IF is = {} THEN r
    ELSE LET i == CHOOSE j \in is : \A k \in is : j <= k IN
         beginAll(beginSession(r, i), is \ {i})

\* Math.ceil(sessions / batchSize)
batches(r) == (r.sessions + batchSize - 1) \div batchSize

\* main()'s parallel branch: every session of the batch is started on a new
\* MobileSessionRunner (loadProfiles is not called on it); Promise.all rejects
\* with the first rejection and main().catch exits with 1; when all have
\* resolved, a 15-minute wait precedes the next batch
ParallelBatches ==
    /\ CASE runner.step = "batch" ->
              runner' = [beginAll(runner, BatchOf(runner)) EXCEPT !.step = "awaitAll"]
         [] runner.step = "awaitAll" ->
              IF \E i \in BatchOf(runner) : runner.sess[i].phase = "rejected"
              THEN runner' = exitProcess(runner, "exit1")
              ELSE /\ \A i \in BatchOf(runner) : runner.sess[i].phase = "finished"
                   /\ IF runner.next < batches(runner) - 1
                      THEN runner' = [runner EXCEPT !.step = "rotation",
                                                    !.waitUntil = runner.clock + sessionDuration]
                      ELSE runner' = exitProcess(runner, "exit0")
         [] runner.step = "rotation" ->
              /\ runner.clock >= runner.waitUntil
              /\ runner' = [runner EXCEPT !.step = "batch", !.next = @ + 1]
         [] OTHER -> FALSE
    /\ SessIdle

\* chromium.launch, browser.newContext, context.newPage: all before the try,
\* so a rejection of any of them rejects runSession
SessionLaunch(i) ==
    /\ runner.sess[i].phase = "launching"
    /\ \E launched \in BOOLEAN :
         runner' = [runner EXCEPT !.sess[i].phase =
                                     IF launched THEN "warmup" ELSE "rejected",
                                  !.sess[i].warmStart = runner.clock]
    /\ SessIdle

\* if (elapsedTime < this.sessionDuration - this.funnelDuration)
funnelStarts(elapsedTime) == elapsedTime < sessionDuration - funnelDuration

\* performWarmup returns (it catches every site's error, and is called
\* whatever the operator answered to the skip prompt: DO_WARMUP is never
\* read); the funnel is run only if funnelStarts
WarmupEnds(i) ==
    /\ runner.sess[i].phase = "warmup"
    /\ LET go == funnelStarts(runner.clock - runner.sess[i].start) IN
       runner' = [runner EXCEPT !.sess[i].phase = IF go THEN "funnelInit" ELSE "closing",
                                !.sess[i].warmupTook = runner.clock - runner.sess[i].warmStart,
                                !.sess[i].funnelRan = go]
    /\ SessIdle

\* the tester is given browser, page, selectedUser and selectedProfile of the
\* session, then runFullTest runs loadUserProfiles (selectedUser becomes a
\* random profile, or null when the file cannot be read), loadDeviceProfiles,
\* loadConfig and initBrowser (this.browser and this.page become a newly
\* launched browser and its page)
funnelBrowserAfterInit == "own"

FunnelInit(i) ==
    /\ runner.sess[i].phase = "funnelInit"
    /\ \E u \in (0..(runner.nProfiles - 1)) \cup {null}, initOK \in BOOLEAN :
         IF initOK
         THEN runner' = [runner EXCEPT !.sess[i].phase = "funnelPages",
                                       !.sess[i].funnelUser = u,
                                       !.sess[i].funnelBrowser = funnelBrowserAfterInit]
         ELSE runner' = [runner EXCEPT !.sess[i].phase = "closing",
                                       !.sess[i].funnelUser = u,
                                       !.sess[i].result = "failure"]
    /\ SessIdle

\* runFullTest returns or throws; the catch of runSession records the failure
FunnelEnds(i) ==
    /\ runner.sess[i].phase = "funnelPages"
    /\ \E ok \in BOOLEAN :
         runner' = [runner EXCEPT !.sess[i].phase = "closing",
                                  !.sess[i].result = IF ok THEN "success" ELSE "failure"]
    /\ SessIdle

\* finally { await browser.close() }
Close(i) ==
    /\ runner.sess[i].phase = "closing"
    /\ runner' = [runner EXCEPT !.sess[i].phase = "hold",
                                !.sess[i].warmStart = 0,
                                !.sess[i].warmupTook = -1,
                                !.sess[i].funnelRan = FALSE,
                                !.sess[i].funnelUser = null,
                                !.sess[i].funnelBrowser = "none"]
    /\ SessIdle

holdOver_skipsWait(r, i) == TRUE

\* if (totalElapsed < this.sessionDuration) await setTimeout(sessionDuration - totalElapsed)
holdOver(r, i) == r.clock - r.sess[i].start >= sessionDuration

HoldEnds(i) ==
    /\ runner.sess[i].phase = "hold"
    /\ holdOver(runner, i)
    /\ runner' = [runner EXCEPT !.sess[i].phase = "finished"]
    /\ SessIdle

\* time passes while a session works or main waits for the rotation
Tick ==
    /\ \/ \E i \in Active(runner) :
            runner.clock - runner.sess[i].start < sessionDuration + MaxOverrun
       \/ runner.step = "rotation" /\ runner.clock < runner.waitUntil
    /\ runner' = [runner EXCEPT !.clock = @ + 1]
    /\ SessIdle

NextSessions ==
    \/ Main
    \/ SequentialRun
    \/ ParallelBatches
    \/ \E i \in Indices(runner) : SessionLaunch(i)
    \/ \E i \in Indices(runner) : WarmupEnds(i)
    \/ \E i \in Indices(runner) : FunnelInit(i)
    \/ \E i \in Indices(runner) : FunnelEnds(i)
    \/ \E i \in Indices(runner) : Close(i)
    \/ \E i \in Indices(runner) : HoldEnds(i)
    \/ Tick

SpecSessions == InitSessions /\ [][NextSessions]_vars

\* ------------------------------------------ selector resolution in isolation
\* One waitForElement call on a candidate list and a DOM snapshot, both drawn
\* from bounded sets; the funnel variables stay idle.
SelectorUniverse == 1..(MaxSelectors + 1)

CandidateLists == UNION { [1..n -> SelectorUniverse] : n \in 0..MaxSelectors }

InitResolve ==
    /\ rev = "tf2"
    /\ pages = <<>>
    /\ testData = {}
    /\ pc = "resolve"
    /\ pageIdx = 1
    /\ previousPageSkipped = FALSE
    /\ alreadyOn = FALSE
    /\ pageResult = NoResult
    /\ fieldIdx = 1
    /\ testResults = [success |-> FALSE, errors |-> <<>>, pageResults |-> <<>>,
                      endTime |-> FALSE, totalDuration |-> FALSE]
    /\ page = TRUE
    /\ browser = TRUE
    /\ thrown = NoErr
    /\ probe \in [selectors : CandidateLists, vis : SUBSET SelectorUniverse, ret : {null},
                  calls : {0}, again : {null}, mutated : {FALSE}]
    /\ detLog = <<>>
    /\ filled = {}
    /\ navTried = {}
    /\ fillLog = <<>>
    /\ shot = "none"
    /\ nav = NoNav
    /\ redir = NoRedir
    /\ runner = NoRunner
    /\ proc = NoProc
    /\ fill = NoFill

Resolve ==
    /\ pc = "resolve"
    /\ probe' = [probe EXCEPT !.ret = waitForElement(probe.selectors, probe.vis),
                              !.calls = 1]
    /\ pc' = "resolved"
    /\ UNCHANGED <<rev, pages, testData, shot, nav, redir, runner, proc, fill, pageIdx, previousPageSkipped, alreadyOn,
                   pageResult, fieldIdx, testResults, page, browser, thrown,
                   detLog, filled, navTried, fillLog>>

\* between two calls the page may show or hide elements
DomChanges ==
    /\ pc = "resolved"
    /\ \E v \in (SUBSET SelectorUniverse) \ {probe.vis} :
         probe' = [probe EXCEPT !.vis = v, !.mutated = TRUE]
    /\ pc' = "domChanged"
    /\ UNCHANGED <<rev, pages, testData, shot, nav, redir, runner, proc, fill, pageIdx, previousPageSkipped, alreadyOn,
                   pageResult, fieldIdx, testResults, page, browser, thrown,
                   detLog, filled, navTried, fillLog>>

firstCandidate_resumes(calls) == calls + 1

\* `for (const selector of selectorArray)`: every call starts at the first
\* candidate; the method keeps nothing from an earlier call
firstCandidate(calls) == 1

\* the same candidate list resolved a second time
ResolveAgain ==
    /\ pc \in {"resolved", "domChanged"}
    /\ probe' = [probe EXCEPT !.again = waitFrom(probe.selectors, probe.vis,
                                                 firstCandidate(probe.calls)),
                              !.calls = 2]
    /\ pc' = "resolvedAgain"
    /\ UNCHANGED <<rev, pages, testData, shot, nav, redir, runner, proc, fill, pageIdx, previousPageSkipped, alreadyOn,
                   pageResult, fieldIdx, testResults, page, browser, thrown,
                   detLog, filled, navTried, fillLog>>

NextResolve ==
    \/ Resolve
    \/ DomChanges
    \/ ResolveAgain

SpecResolve == InitResolve /\ [][NextResolve]_vars

\* ------------------------------------------------------ one fillField call
\* One call of fillField followed through its switch on field.action and the
\* pause after the interaction.  fill.hasDelays tells whether the loaded
\* config carries settings.delays (loadConfig adds nothing to what it parsed);
\* "hover" stands for any action outside the four the switch names.
ListedActions == {"type", "clear_and_type", "select", "click"}

Actions == ListedActions \cup {"hover"}

\* the browser primitives the switch calls on the element, in order
primitives(r, action) ==
    CASE r = "tf2" /\ action = "clear_and_type" -> <<"fill", "type">>
      [] r = "tf2" /\ action = "type"           -> <<"type">>
      [] r = "tf1" /\ action = "clear_and_type" -> <<"clear", "fill">>
      [] r = "tf1" /\ action = "type"           -> <<"fill">>
      [] action = "select"                      -> <<"selectOption">>
      [] action = "click"                       -> <<"click">>
      [] r = "tf2"                              -> <<"fill">>
      [] OTHER                                  -> <<>>

\* the switch's default branch raises instead of interacting
unknownActionThrows(r) == r = "tf1"

\* settings.delays.betweenFields is read with a fallback
delaysDefaulted(r) == r = "tf1"

\* the whole call: fillField's outcome for a listed action and present
\* delays, then the default branch and the read of the delays
fillFieldCall(r, field, data, found, interactOK, hasDelays) ==
    LET base == fillField(r, field, data, found, interactOK)
        prims == IF base.interacted THEN primitives(r, field.action) ELSE <<>>
        whole == [ret |-> base.ret, err |-> base.err, prims |-> prims] IN
    IF base.interacted /\ field.action \notin ListedActions /\ unknownActionThrows(r)
        THEN IF ~isOptional(r, field)
             THEN [whole EXCEPT !.ret = "throw",
                                !.err = Err("UnknownAction", field.fieldType)]
             ELSE [whole EXCEPT !.ret = "false", !.err = NoErr]
    ELSE IF base.ret = "true" /\ base.interacted /\ ~hasDelays /\ ~delaysDefaulted(r)
        THEN [whole EXCEPT !.ret = "throw",
                           !.err = Err("TypeError", field.fieldType)]
    ELSE whole

FillFrames ==
    [step : {"call"}, field : {[FieldSpecAt(1, fl) EXCEPT !.action = a] :
                                  fl \in FieldFlags, a \in Actions},
     hasData : BOOLEAN, hasDelays : BOOLEAN, found : {null, 1},
     interactOK : BOOLEAN, ret : {"none"}, err : {NoErr}, prims : {<<>>}]

InitFill ==
    /\ rev \in {"tf2", "tf1"}
    /\ pages = <<>>
    /\ testData = {}
    /\ pc = "fill"
    /\ pageIdx = 1
    /\ previousPageSkipped = FALSE
    /\ alreadyOn = FALSE
    /\ pageResult = NoResult
    /\ fieldIdx = 1
    /\ testResults = [success |-> FALSE, errors |-> <<>>, pageResults |-> <<>>,
                      endTime |-> FALSE, totalDuration |-> FALSE]
    /\ page = TRUE
    /\ browser = TRUE
    /\ thrown = NoErr
    /\ probe = NoProbe
    /\ detLog = <<>>
    /\ filled = {}
    /\ navTried = {}
    /\ fillLog = <<>>
    /\ shot = "none"
    /\ nav = NoNav
    /\ redir = NoRedir
    /\ runner = NoRunner
    /\ proc = NoProc
    /\ fill \in FillFrames

FillIdle ==
    UNCHANGED <<rev, pages, testData, pc, pageIdx, previousPageSkipped, alreadyOn,
                pageResult, fieldIdx, testResults, page, browser, thrown, probe,
                detLog, filled, navTried, fillLog, shot, nav, redir, runner, proc>>

FillCall ==
    /\ fill.step = "call"
    /\ LET out == fillFieldCall(rev, fill.field,
                                IF fill.hasData THEN {fill.field.fieldType} ELSE {},
                                fill.found, fill.interactOK, fill.hasDelays) IN
         fill' = [fill EXCEPT !.step = "returned", !.ret = out.ret,
                              !.err = out.err, !.prims = out.prims]
    /\ FillIdle

NextFill == FillCall

SpecFill == InitFill /\ [][NextFill]_vars

\* ================================================================= claims
SeqToSet(sq) == { sq[x] : x \in 1..Len(sq) }

\* the PageResults recorded in the RunResult for the page at list index k
ResultsOf(k) == { pr \in SeqToSet(testResults.pageResults) : pr.pageNumber = pages[k].pageNumber }

\* a field that is required in the sense of the specification
SpecRequired(field) == ~field.optional /\ field.required # "false"

\* C1: on an unchanging DOM, waitForElement returns the lowest-index candidate
\* that is visible, never one that follows a visible candidate, and returns
\* null (a value, not an exception) when no candidate is visible.
C1_FirstVisibleWins ==
    pc = "resolved" =>
        LET S == probe.selectors
            V == probe.vis IN
        IF \E c \in 1..Len(S) : S[c] \in V
        THEN \E c \in 1..Len(S) :
               /\ probe.ret = S[c]
               /\ S[c] \in V
               /\ \A m \in 1..(c - 1) : S[m] \notin V
        ELSE probe.ret = null

C1_Witness ==
    /\ pc = "resolved"
    /\ Len(probe.selectors) = 2
    /\ probe.selectors[1] # probe.selectors[2]
    /\ probe.selectors[1] \in probe.vis
    /\ probe.selectors[2] \in probe.vis
    /\ probe.ret = probe.selectors[1]

\* C2: whenever filling a required field fails (a field not marked optional
\* and not marked required:false, a field omitting `required` included),
\* testPage aborts the page: no later field of the page is filled, navigation
\* is not attempted, the page's success stays false and the run ends with
\* RunResult.success = false.
C2_RequiredFailureAbortsPage ==
    rev \in {"tf1", "tf2"} =>
        \A x \in 1..Len(fillLog) :
            LET e == fillLog[x]
                field == pages[e.page].fields[e.field] IN
            (SpecRequired(field) /\ e.ret = "throw") =>
                /\ \A q \in filled : q[1] = e.page => q[2] <= e.field
                /\ \A y \in (x + 1)..Len(fillLog) : fillLog[y].page # e.page
                /\ e.page \notin navTried
                /\ \A pr \in ResultsOf(e.page) : ~pr.success
                /\ (pageIdx = e.page => ~pageResult.success)
                /\ (pc = "done" => ~testResults.success)

\* C3 (Scenario C): page 1 has one required field whose selector never
\* resolves: the run ends with success = false, exactly one PageResult is
\* recorded, and its errors contain a field-not-found message for that field.
C3_ScenarioC ==
    ( /\ rev = "tf2"
      /\ pc = "done"
      /\ Len(pages[1].fields) = 1
      /\ SpecRequired(pages[1].fields[1])
      /\ Len(fillLog) >= 1
      /\ fillLog[1].page = 1
      /\ ~fillLog[1].found )
    =>
    /\ ~testResults.success
    /\ Len(testResults.pageResults) = 1
    /\ \E m \in 1..Len(testResults.pageResults[1].errors) :
         /\ testResults.pageResults[1].errors[m].kind = "FieldNotFound"
         /\ testResults.pageResults[1].errors[m].field = pages[1].fields[1].fieldType

\* C4: for every optional field whose selector does not resolve or whose data
\* value is missing, fillField returns false without raising and the page's
\* fieldsCompleted is not incremented for that field.
C4_OptionalFieldReturnsFalse ==
    \A x \in 1..Len(fillLog) :
        LET e == fillLog[x]
            field == pages[e.page].fields[e.field] IN
        (~SpecRequired(field) /\ (~e.found \/ field.fieldType \notin testData)) =>
            /\ e.ret = "false"
            /\ e.completedAfter = e.completedBefore

\* the detection record of the page at list index k, if it has one
DetOf(k) == { e \in SeqToSet(detLog) : e.page = k }

\* C5: for every optional page whose own detection selector is not visible
\* while the next page's detection selector is visible, detection classifies
\* the page as SKIPPED and its PageResult has skipped = true and success = true.
\* (Checked for every undetected optional page, whatever the look-ahead saw.)
C5_OptionalUndetectedIsSkipped ==
    rev = "tf2" =>
        \A e \in SeqToSet(detLog) :
            (pages[e.page].optional /\ e.probed /\ ~e.own) =>
                /\ e.outcome = "SKIPPED"
                /\ ResultsOf(e.page) # {}
                /\ \A pr \in ResultsOf(e.page) : pr.skipped /\ pr.success

C5_Witness ==
    /\ rev = "tf2"
    /\ \E e \in SeqToSet(detLog) :
         /\ pages[e.page].optional /\ e.probed /\ ~e.own
         /\ e.target = e.page + 1 /\ e.nextFound
         /\ \E pr \in ResultsOf(e.page) : pr.skipped /\ pr.success

\* C6 as stated: a PageResult has skipped = true only if the look-ahead found
\* the next page's detection selector visible.
C6_SkippedOnlyIfNextConfirmed ==
    rev = "tf2" =>
        \A k \in 1..Len(pages) :
            (\E pr \in ResultsOf(k) : pr.skipped) =>
                \E e \in DetOf(k) : e.target # 0 /\ e.nextFound

\* C6 as amended: a PageResult has skipped = true only for an optional page
\* whose own detection selector was probed and not found; the look-ahead, when
\* it runs, does not change the classification.
C6_SkippedOnlyIfOptionalUndetected ==
    rev = "tf2" =>
        \A k \in 1..Len(pages) :
            (\E pr \in ResultsOf(k) : pr.skipped) =>
                /\ pages[k].optional
                /\ pages[k].hasDetection
                /\ \E e \in DetOf(k) : e.probed /\ ~e.own /\ e.outcome = "SKIPPED"

C6_Witness ==
    /\ rev = "tf2"
    /\ \E k \in 1..Len(pages) :
         /\ \E pr \in ResultsOf(k) : pr.skipped
         /\ \E e \in DetOf(k) : e.target # 0 /\ ~e.nextFound

\* C7: the look-ahead of an undetected optional page probes the detection
\* selector of the PageSpec that immediately follows it in the page list, also
\* when the page numbers are not contiguous.
C7_LookAheadProbesFollowingPage ==
    rev = "tf2" =>
        \A e \in SeqToSet(detLog) :
            ( /\ e.outcome = "SKIPPED"
              /\ e.page < Len(pages)
              /\ pages[e.page + 1].hasDetection )
            => e.target = e.page + 1

\* C8: when a non-optional page's detection selector is not found, the page
\* fails and the run is marked failed whatever the inspection returned; the
\* inspection only selects the message.
C8_RequiredPageNotFoundFails ==
    /\ \A e \in SeqToSet(detLog) :
          (e.probed /\ ~e.own /\ ~pages[e.page].optional) =>
              /\ e.outcome = "NOT_FOUND"
              /\ ResultsOf(e.page) = {}
              /\ ~testResults.success
              /\ pc \in {"screenshot", "cleanup", "done"}
              /\ thrown.kind \in {"StillOnFacebook", "PageDetectionFailed"}
              /\ (thrown.kind = "StillOnFacebook") = (e.inspection = "onFacebook")
    /\ pc = "inspect" => (~pages[pageIdx].optional \/ rev # "tf2")

C8_Witness ==
    /\ pc = "done"
    /\ rev = "tf2"
    /\ \E e \in SeqToSet(detLog) :
         /\ e.probed /\ ~e.own /\ ~pages[e.page].optional
         /\ e.inspection = "error"
    /\ ~testResults.success

\* C9: a PageSpec with no pageDetection is always DETECTED: no detection wait
\* is made for it, it goes on to field filling, and it is never classified
\* SKIPPED or NOT_FOUND, optional or not.
C9_NoDetectionMeansDetected ==
    \A k \in 1..Len(pages) :
        ~pages[k].hasDetection =>
            /\ \A e \in DetOf(k) : e.outcome = "DETECTED" /\ ~e.probed
            /\ \A pr \in ResultsOf(k) : ~pr.skipped
            /\ (pageIdx = k => pc \notin {"enter", "lookahead", "inspect"})
            /\ (pageIdx = k /\ pc \in {"screenshot", "cleanup", "done"}) =>
                   thrown.kind \notin {"StillOnFacebook", "PageDetectionFailed"}
            /\ (pageIdx = k /\ DetOf(k) # {} /\ thrown = NoErr) => pc = "fields"

C9_Witness ==
    /\ pc = "fields"
    /\ pages[pageIdx].optional
    /\ ~pages[pageIdx].hasDetection
    /\ DetOf(pageIdx) # {}

\* C10: every PageResult marked skipped = true also has success = true.
C10_SkippedImpliesSuccess ==
    /\ \A pr \in SeqToSet(testResults.pageResults) : pr.skipped => pr.success
    /\ pageResult.skipped => pageResult.success

C10_Witness ==
    \E pr \in SeqToSet(testResults.pageResults) : pr.skipped

\* C11: in every reachable state every PageResult, the one being built and
\* the recorded ones, has fieldsCompleted <= totalFields, totalFields being the
\* number of FieldSpecs of its page.
C11_FieldsCompletedBounded ==
    /\ \A pr \in SeqToSet(testResults.pageResults) :
          /\ pr.fieldsCompleted <= pr.totalFields
          /\ \A k \in 1..Len(pages) :
                pages[k].pageNumber = pr.pageNumber => pr.totalFields = Len(pages[k].fields)
    /\ pageResult.fieldsCompleted <= pageResult.totalFields

C11_Witness ==
    \E pr \in SeqToSet(testResults.pageResults) :
        /\ pr.totalFields = MaxFields
        /\ pr.fieldsCompleted = pr.totalFields
        /\ \E k \in 1..Len(pages) :
              /\ pages[k].pageNumber = pr.pageNumber
              /\ \E j \in 1..Len(pages[k].fields) : pages[k].fields[j].optional

FieldErrKinds == {"FieldNotFound", "MissingData", "Interaction"}

DetectionErrKinds == {"StillOnFacebook", "PageDetectionFailed"}

\* C12: a failure of an optional field (selector missing, value missing,
\* interaction error) and the non-detection of an optional page never abort
\* the run: the error runFullTest re-raises is never the failure of an optional
\* field or the detection failure of an optional page, the field loop goes on
\* after such a field, and a run that saw no other failure ends with
\* RunResult.success = true.
C12_OptionalFailureNeverAborts ==
    rev = "tf2" =>
        /\ thrown.kind \in FieldErrKinds =>
              /\ Len(fillLog) > 0
              /\ LET e == fillLog[Len(fillLog)] IN
                    SpecRequired(pages[e.page].fields[e.field])
        /\ thrown.kind \in DetectionErrKinds => ~pages[pageIdx].optional
        /\ \A x \in 1..Len(fillLog) :
              LET e == fillLog[x] IN
              (~SpecRequired(pages[e.page].fields[e.field]) /\ e.ret # "true") =>
                  \/ x < Len(fillLog)
                  \/ (pageIdx = e.page /\ pc = "fields" /\ fieldIdx = e.field + 1)
                  \/ pageIdx > e.page
                  \/ thrown.kind \in {"NavigationElementNotFound", "NavigationFailed"}
        /\ (pc = "done" /\ thrown = NoErr) => testResults.success

C12_Witness ==
    /\ rev = "tf2"
    /\ pc = "done"
    /\ testResults.success
    /\ \E x, y \in 1..Len(fillLog) :
          /\ ~SpecRequired(pages[fillLog[x].page].fields[fillLog[x].field])
          /\ fillLog[x].ret = "throw"
          /\ fillLog[x].err.kind = "Interaction"
          /\ ~SpecRequired(pages[fillLog[y].page].fields[fillLog[y].field])
          /\ fillLog[y].ret = "false"

\* C13: whenever fillField is called for a required field whose selector
\* resolves and whose fieldType has no value in the data record, the call fails
\* with a missing-data error and performs no interaction on the field.
C13_MissingDataFailsWithoutInteraction ==
    rev \in {"tf1", "tf2"} =>
        \A x \in 1..Len(fillLog) :
            LET e == fillLog[x]
                field == pages[e.page].fields[e.field] IN
            (SpecRequired(field) /\ e.found /\ field.fieldType \notin testData) =>
                /\ e.ret = "throw"
                /\ e.err.kind = "MissingData"
                /\ <<e.page, e.field>> \notin filled

\* C14: once a page is classified SKIPPED none of its fields is filled and its
\* navigation is not attempted; the page loop advances to the PageSpec that
\* follows it in the list, and that page is processed as usual (its own
\* detection decides between fields, skip and failure).  Scenario B: three
\* pages, page 2 optional and skipped, no other failure: the run succeeds with
\* three PageResults, the second one skipped.
C14_SkippedPageAdvances ==
    rev = "tf2" =>
        /\ \A e \in SeqToSet(detLog) :
              e.outcome = "SKIPPED" =>
                  /\ \A q \in filled : q[1] # e.page
                  /\ \A x \in 1..Len(fillLog) : fillLog[x].page # e.page
                  /\ e.page \notin navTried
                  /\ pageIdx > e.page
                  /\ pageIdx > e.page + 1 => DetOf(e.page + 1) # {}
                  /\ \A n \in DetOf(e.page + 1) :
                        /\ n.probed = pages[n.page].hasDetection
                        /\ (n.outcome = "DETECTED") = (~n.probed \/ n.own)
                        /\ (n.outcome = "SKIPPED") = (n.probed /\ ~n.own /\ pages[n.page].optional)
        /\ ( /\ pc = "done" /\ thrown = NoErr /\ Len(pages) = 3
              /\ \E e \in DetOf(2) : e.outcome = "SKIPPED" )
           => /\ testResults.success
              /\ Len(testResults.pageResults) = 3
              /\ testResults.pageResults[2].skipped
              /\ ~testResults.pageResults[3].skipped \/ pages[3].optional
              /\ testResults.pageResults[3].pageNumber = pages[3].pageNumber

C14_Witness ==
    /\ rev = "tf2"
    /\ pc = "done"
    /\ testResults.success
    /\ Len(pages) = 3
    /\ \E e \in DetOf(2) : e.outcome = "SKIPPED" /\ e.nextFound
    /\ \E e \in DetOf(3) : e.outcome = "DETECTED" /\ e.probed
    /\ Len(testResults.pageResults) = 3
    /\ Len(pages[3].fields) = 1
    /\ testResults.pageResults[3].fieldsCompleted = 1
    /\ ~pages[1].optional /\ ~pages[3].optional

\* C15: the run is failed by the first page error that is not absorbed: from
\* then on no PageSpec is detected, filled or navigated and no PageResult is
\* recorded; and no PageSpec is processed twice (detections and field fills
\* are logged in strictly increasing list order).
C15_FailFastNoRetry ==
    /\ [](\A x, y \in 1..Len(detLog) : x < y => detLog[x].page < detLog[y].page)
    /\ [](\A x, y \in 1..Len(fillLog) :
            x < y => \/ fillLog[x].page < fillLog[y].page
                     \/ /\ fillLog[x].page = fillLog[y].page
                        /\ fillLog[x].field < fillLog[y].field)
    /\ [](thrown # NoErr => (~testResults.success /\ pc \in {"screenshot", "cleanup", "done"}))
    /\ [][thrown # NoErr =>
            /\ UNCHANGED <<detLog, fillLog, filled, navTried, pageIdx, fieldIdx, thrown>>
            /\ testResults' = testResults]_vars

C15_Witness ==
    /\ rev = "tf2"
    /\ pc = "done"
    /\ thrown # NoErr
    /\ Len(pages) = 3
    /\ pageIdx = 2
    /\ Len(testResults.pageResults) = 1
    /\ DetOf(3) = {}

C17_FinalizedExactlyOnce ==
    /\ [](pc = "done" => (testResults.endTime /\ testResults.totalDuration))
    /\ [](testResults.endTime = testResults.totalDuration)
    /\ [](pc \in {"start", "loop", "enter", "detect", "lookahead", "inspect", "fields"}
            => ~testResults.endTime)
    /\ [][testResults.endTime => testResults' = testResults]_vars

\* C18: on an aborting error a screenshot is attempted when a page exists and
\* its failure is swallowed: the error recorded in the RunResult and the error
\* re-raised to the caller are both the original triggering error; the browser
\* is torn down at the end of every run, successful or failed.
C18_ScreenshotBestEffort ==
    /\ pc = "done" => ~browser
    /\ (pc \in {"cleanup", "done"} /\ ~testResults.success) =>
          /\ Len(testResults.errors) = 1
          /\ thrown = testResults.errors[1]
          /\ page => shot \in {"saved", "failed"}
    /\ testResults.success => (shot = "none" /\ thrown = NoErr)

\* C19: if no candidate selector of the NavigationSpec resolves, the call
\* fails with the navigation-element-not-found error and performs neither a
\* click nor a page navigation.
C19_NoNavSelectorNoClick ==
    (rev \in {"tf2", "p2"} /\ nav.step \in {"done", "failed"} /\ nav.found = null) =>
        /\ nav.step = "failed"
        /\ nav.err.kind = "NavigationElementNotFound"
        /\ ~nav.clicked
        /\ ~nav.navigated

\* C20: with expectNewTab set, once the click has returned, a 'page' event that
\* has fired, before or after click() returned, is the one the call obtains:
\* it is never missed, and a call that goes on past the wait has switched to
\* the new tab.
C20_NewTabEveryInterleaving ==
    (rev \in {"tf2", "p2"} /\ nav.expectNewTab /\ nav.clickReturned /\ nav.tabEvent # "none") =>
        /\ nav.tabEvent = "caught"
        /\ nav.step \in {"settle", "done"} => nav.activePage = "newtab"

NavTerminal == nav.step \in {"done", "failed"}

\* C21: with waitForUrlChange set, once the URL verification has run and the
\* call has ended: a changed URL never gives the no-URL-change failure; an
\* unchanged URL makes the call fail when the pre-click URL is off the wrapper
\* host, and does not make it fail when the pre-click URL is on the wrapper
\* host (revisions tf1, tf2, p2).
C21_UrlChangeVerified ==
    (rev \in {"tf1", "tf2", "p2"} /\ nav.waitForUrlChange /\ nav.verified /\ NavTerminal) =>
        /\ nav.urlChanged => nav.err.kind # "NoUrlChange"
        /\ (~nav.urlChanged /\ ~nav.onFacebook) => nav.step = "failed"
        /\ (~nav.urlChanged /\ nav.onFacebook) => nav.err.kind # "NoUrlChange"

\* C22: within one call the control is clicked at most once unless
\* retryIfNoNavigation is set and the pre-click URL is off the wrapper host;
\* then it is clicked at most 3 times, a re-click happens only while the URL
\* is unchanged, and no call ends with a re-click that no URL check followed
\* (revisions tf1, p0, tf2).
C22_BoundedClickRetry ==
    rev \in {"tf1", "p0", "tf2"} =>
        /\ ~(nav.retryIfNoNavigation /\ ~nav.onFacebook) => nav.clicks <= 1
        /\ nav.clicks <= 3
        /\ nav.recheckDue => ~nav.urlChanged
        /\ (NavTerminal /\ nav.err.kind # "NavigationFailed") => ~nav.recheckDue

\* C25: a call during which redirect resolution raised its failure ends
\* failed, carrying the redirect-chain-incomplete error (as its kind or as the
\* wrapped cause), not the element-not-found error, another error, or the
\* success of a fallback (revisions p2, tf2).
C25_RedirectFailureSurfaces ==
    (rev \in {"p2", "tf2"} /\ nav.redirectRaised /\ NavTerminal) =>
        /\ nav.step = "failed"
        /\ nav.err.kind # "NavigationElementNotFound"
        /\ "RedirectChainIncomplete" \in {nav.err.kind, nav.cause}

DecodedDest == <<"https", ":", "/", "/", "dest.example", "/", "x">>

\* C26: when the clicked link's href carries the destination in u=, the first
\* strategy redirect resolution attempts is direct navigation to the decoded
\* URL, and for u=https%3A%2F%2Fdest.example%2Fx that target is
\* https://dest.example/x (revisions p2, tf2).
C26_DecodeFirst ==
    (rev \in {"p2", "tf2"} /\ nav.href # <<>> /\ nav.strategies # <<>>) =>
        /\ nav.strategies[1] = "direct"
        /\ nav.target = DecodedDest

\* C23: the redirect handler returns normally only when the page is no longer
\* on the wrapper host, whatever URL the page is at, wrapper URLs that carry
\* the destination domain in a query parameter included; on the wrapper host
\* it ends by raising.
C23_ReturnsOnlyOffWrapper ==
    redir.step = "ended" =>
        (onWrapperHost(redir.pageUrl) <=> redir.result = "raised")

HopLoopBounded ==
    /\ redir.iterations <= maxRedirects
    /\ \A i \in DOMAIN redir.startedAt :
         /\ redir.startedAt[i].elapsed < redir.maxWaitTime
         /\ onWrapperHost(redir.startedAt[i].url)
    /\ redir.backoffs \subseteq 6..maxRedirects

C27_SequentialNoOverlap ==
    runner.mode = "sequential" =>
        /\ Cardinality(Active(runner)) <= 1
        /\ \A i \in Indices(runner) :
             (i > 0 /\ runner.sess[i].launched > 0) =>
                 /\ runner.sess[i - 1].phase = "finished"
                 /\ runner.sess[i].start >= runner.sess[i - 1].start + sessionDuration

C27_Witness ==
    /\ runner.mode = "sequential"
    /\ runner.sessions > 1
    /\ runner.sess[1].phase = "funnelPages"
    /\ runner.sess[0].result = "success"

Exited == runner.step \in {"exit0", "exit1"}

\* C28: in parallel-batch mode at most batchSize sessions are active, no index
\* is launched twice, a session of a later batch is launched only after every
\* session of the batch before has finished and the rotation period has
\* passed since, and when the run is over every index 0..sessions-1 has been
\* launched.
C28_BatchesInOrder ==
    runner.mode = "parallel" =>
        /\ Cardinality(Active(runner)) <= batchSize
        /\ \A i \in Indices(runner) : runner.sess[i].launched <= 1
        /\ \A i, j \in Indices(runner) :
             (i \div batchSize < j \div batchSize /\ runner.sess[j].launched > 0) =>
                 /\ runner.sess[i].phase = "finished"
                 /\ runner.sess[j].start >= runner.sess[i].start + 2 * sessionDuration
        /\ Exited => \A i \in Indices(runner) : runner.sess[i].launched = 1

\* C29: when the run is over and some session failed, every session of the
\* run has still been run to its own end (finished, or failed by itself).
C29_FailuresConfined ==
    (Exited /\ \E i \in Indices(runner) :
                 runner.sess[i].phase = "rejected" \/ runner.sess[i].result = "failure") =>
        \A j \in Indices(runner) : runner.sess[j].phase \in {"finished", "rejected"}

\* C30: while a session's funnel pages are being run, the tester's browser and
\* page are the ones the session warmed up and its user profile is the one
\* selected for the session.
C30_FunnelInWarmedContext ==
    \A i \in Indices(runner) :
        runner.sess[i].phase = "funnelPages" =>
            /\ runner.sess[i].funnelBrowser = "warmed"
            /\ runner.sess[i].funnelUser = runner.sess[i].user

\* C38: a session whose warm-up ended within its 12-minute budget, the full
\* 12 minutes included, has gone on to run the funnel and has recorded a
\* session result by the time its browser is closed.
C38_WarmupThenFunnel ==
    \A i \in Indices(runner) :
        (runner.sess[i].phase = "closing" /\ runner.sess[i].warmupTook \in 0..warmupDuration) =>
            /\ runner.sess[i].funnelRan
            /\ runner.sess[i].result \in {"success", "failure"}

\* C39: a session runs its funnel without a warm-up exactly when the operator
\* answered 'y' to the skip prompt.
C39_SkipWarmupHonoured ==
    \A i \in Indices(runner) :
        runner.sess[i].phase \in {"funnelInit", "funnelPages"} =>
            (runner.skipWarmup <=> runner.sess[i].warmupTook < 0)

\* C40: in part_002's new-tab path the active page handle is the new tab only
\* if the tab opened and redirect handling on it returned; when the tab never
\* opened or the handling raised, the handle is still the original page and
\* the fallback methods ran on the original page.
C40_HandleSwitchedAfterRedirect ==
    (rev = "p2" /\ NavTerminal /\ nav.strategies # <<>> /\ nav.strategies[1] = "newTab") =>
        /\ nav.activePage = "newtab" =>
              (nav.tabEvent = "caught" /\ ~nav.redirectRaised /\ Len(nav.strategies) = 1)
        /\ Len(nav.strategies) > 1 =>
              (nav.activePage = "orig" /\ nav.fallbackPage = "orig")

C40_Witness ==
    /\ rev = "p2"
    /\ nav.step = "done"
    /\ nav.redirectRaised
    /\ nav.strategies = <<"newTab", "direct">>
    /\ nav.activePage = "orig"

ScenarioA ==
    /\ rev = "tf2"
    /\ Len(pages) = 3
    /\ \A k \in 1..3 :
         /\ ~pages[k].optional
         /\ pages[k].hasNav <=> k < 3
         /\ \A j \in 1..Len(pages[k].fields) :
              /\ isRequired(rev, pages[k].fields[j])
              /\ pages[k].fields[j].fieldType \in testData

\* every selector that was waited for was present and no browser primitive
\* (load, goto, interaction, click) failed
BrowserFailKinds ==
    {"ConfigLoad", "Goto", "LoadTimeout", "Interaction", "NavigationFailed",
     "NavigationElementNotFound"}

Cooperative ==
    /\ \A n \in 1..Len(detLog) : detLog[n].probed => detLog[n].own
    /\ \A n \in 1..Len(fillLog) : fillLog[n].found
    /\ thrown.kind \notin BrowserFailKinds

\* C36: Scenario A with every selector present ends with success = true and
\* exactly 3 page results, all successful and none skipped.
C36_ScenarioA ==
    (ScenarioA /\ Cooperative /\ pc = "done") =>
        /\ testResults.success
        /\ Len(testResults.pageResults) = 3
        /\ \A k \in 1..Len(testResults.pageResults) :
             /\ testResults.pageResults[k].success
             /\ ~testResults.pageResults[k].skipped
             /\ testResults.pageResults[k].pageNumber = pages[k].pageNumber

C36_Witness ==
    /\ ScenarioA
    /\ Cooperative
    /\ pc = "done"
    /\ \A k \in 1..3 : pages[k].hasDetection /\ Len(pages[k].fields) = 1
    /\ Len(fillLog) = 3
    /\ navTried = {1, 2}
    /\ testResults.success

\* C31 as stated: the exit code is 0 exactly when the run finished with
\* success = true, and 1 whenever the run ended with a funnel error.
C31_ExitCodeIffSuccess ==
    proc.step = "exited" =>
        /\ proc.exitCode = 0 <=> testResults.success
        /\ thrown # NoErr => proc.exitCode = 1

\* C31: the exit code is 0 exactly when the run finished with success = true
\* and its result file was written; it is 1 whenever the run ended with a
\* funnel error, and also when the result file of a successful run could not
\* be written.
C31_ExitCodeIffSuccessAndSaved ==
    proc.step = "exited" =>
        /\ proc.exitCode \in {0, 1}
        /\ proc.exitCode = 0 <=>
              (testResults.success /\ finalOutputPath(rev, DefaultOutputPath) \in proc.files
               /\ ~proc.writeFailed)
        /\ thrown # NoErr => proc.exitCode = 1

C31_Witness ==
    /\ proc.step = "exited"
    /\ proc.exitCode = 1
    /\ thrown.kind = "NavigationElementNotFound"
    /\ ~testResults.success
    /\ proc.files # {}

\* C32: when no write failed, a result file has been written by the time the
\* process exits, after a successful and after a failed run, and the name
\* written after a failed run is not the name written after a successful one.
C32_FailureFileDistinct ==
    (proc.step = "exited" /\ ~proc.writeFailed) =>
        /\ proc.files # {}
        /\ ~testResults.success =>
              finalOutputPath(rev, DefaultOutputPath) \notin proc.files


\* C33: a config without settings.delays behaves as one with explicit
\* delays: a field whose element was found, whose data is present and whose
\* interaction succeeded is reported as filled, and the call raises nothing.
C33_MissingDelaysDefaulted ==
    (fill.step = "returned" /\ rev = "tf2" /\ ~fill.hasDelays /\ fill.found # null
        /\ fill.hasData /\ fill.interactOK) =>
        (fill.ret = "true" /\ fill.err = NoErr)

\* C34: a field whose action is none of type, clear_and_type, select and
\* click makes the call fail with an unknown-action error, and no browser
\* primitive is called on the element.
C34_UnknownActionRejected ==
    (fill.step = "returned" /\ fill.field.action \notin ListedActions
        /\ fill.found # null /\ fill.hasData) =>
        (fill.ret = "throw" /\ fill.err.kind = "UnknownAction" /\ fill.prims = <<>>)


\* the run is over: runFullTest recorded its end (success or FAILED) and the
\* finally block closed the browser; a navigateToNextPage call returned or
\* threw
Terminated ==
    \/ pc = "done" /\ testResults.endTime /\ ~browser
    \/ nav.step \in {"done", "failed"}

\* C37: when every browser primitive settles, every run reaches a terminal
\* state (all pages done, or failed) with the browser closed, and every
\* navigateToNextPage call returns or throws: the page loop, the click-retry
\* loop and the redirect handling all end.
C37_RunTerminates == <>Terminated

\* a failed run that processed a page and then closed the browser it opened
C37_Witness ==
    /\ pc = "done" /\ testResults.endTime /\ ~browser /\ page
    /\ thrown # NoErr
    /\ Len(testResults.pageResults) >= 1

====
